---- MODULE Spec2Model ----
(***************************************************************************)
(* TeamTone: manufacturer ranking, weighted scoring and filament matching. *)
(*                                                                         *)
(* Python floats are IEEE-754 binary64.  A non-negative float x < 128 is   *)
(* held exactly as the integer x * 2^62 in three 23-bit limbs              *)
(* <<n2, n1, n0>>; every operation rounds to 53 significant bits, ties to  *)
(* even, as the hardware does.  Similarities and the rank multiplier are   *)
(* written as decimal literals in hundredths ("cents"): FloatLiteral(504)  *)
(* is the float that the literal 5.04 denotes.                             *)
(*                                                                         *)
(* Strings are TLA+ strings; Len, SubSeq and \o act on them as on          *)
(* sequences of characters.                                                *)
(***************************************************************************)
EXTENDS Integers, Sequences, FiniteSets, TLC

VARIABLES
    TOP_MANUFACTURERS,  \* filament_manufacturers.TOP_MANUFACTURERS (module global)
    ALL_FILAMENTS,      \* filament_colors.ALL_FILAMENTS, flattened in iteration order
    pc,                 \* "ready": globals loaded; "returned": one call has returned
    call,               \* the call made: [op |-> name of the function, ...arguments]
    ret,                \* its return value
    ALL_TEAMS,          \* team_colors.ALL_TEAMS, as its items in insertion order
    locals,             \* local variables of the running loop (main, or a scraper's fetch)
    io                  \* what the running loop has done outside: requests sent, sleeps

vars == <<TOP_MANUFACTURERS, ALL_FILAMENTS, pc, call, ret, ALL_TEAMS, locals, io>>

----------------------------------------------------------------------------
(* binary64 arithmetic *)

RECURSIVE Pow2(_)
Pow2(k) == IF k = 0 THEN 1 ELSE 2 * Pow2(k - 1)

\* one limb holds 23 bits
FloatBase == Pow2(23)

RECURSIVE BitLen(_)
BitLen(x) == IF x = 0 THEN 0 ELSE 1 + BitLen(x \div 2)

FloatBits(f) ==
    IF f[1] > 0 THEN 46 + BitLen(f[1])
    ELSE IF f[2] > 0 THEN 23 + BitLen(f[2]) ELSE BitLen(f[3])

FloatCarry(n2, n1, n0) ==
    LET t1 == n1 + (n0 \div FloatBase)
    IN  <<n2 + (t1 \div FloatBase), t1 % FloatBase, n0 % FloatBase>>

\* Round an exact value to 53 significant bits, ties to even; sticky says
\* that non-zero bits lie below the last limb.
FloatRound(f, sticky) ==
    LET k == FloatBits(f) - 53
    IN  IF k <= 0 THEN f
        ELSE LET p    == Pow2(k)
                 low  == f[3] % p
                 half == p \div 2
                 odd  == (f[3] \div p) % 2 = 1
                 up   == low > half \/ (low = half /\ (sticky \/ odd))
             IN  FloatCarry(f[1], f[2], (f[3] - low) + (IF up THEN p ELSE 0))

\* a + b on floats
FloatAdd(a, b) ==
    FloatRound(FloatCarry(a[1] + b[1], a[2] + b[2], a[3] + b[3]), FALSE)

\* n * a for a small non-negative int n (converted exactly) and a float a
FloatMulInt(n, a) ==
    FloatRound(FloatCarry(n * a[1], n * a[2], n * a[3]), FALSE)

\* The float denoted by the decimal literal cents/100: cents * 2^62 / 100,
\* by long division over the limbs, correctly rounded.
FloatLiteral(cents) ==
    LET top == cents * 65536
        c1  == (top % 100) * FloatBase
        c0  == (c1 % 100) * FloatBase
    IN  FloatRound(<<top \div 100, c1 \div 100, c0 \div 100>>, c0 % 100 # 0)

\* a < b on floats
FloatLess(a, b) ==
    \/ a[1] < b[1]
    \/ a[1] = b[1] /\ a[2] < b[2]
    \/ a[1] = b[1] /\ a[2] = b[2] /\ a[3] < b[3]

\* The float to two decimals, as f"{x:.2f}" prints it, in cents.
FloatCents(f) == (100 * f[1] + 32768) \div 65536

FloatZero == <<0, 0, 0>>

\* A float with its sign, <<-1 or 1, magnitude>>: the -1 that the scans start
\* from, and a < b on such values.
MinusOne == <<-1, FloatLiteral(100)>>

SignedLess(a, b) ==
    IF a[1] = -1
    THEN (IF b[1] = -1 THEN FloatLess(b[2], a[2]) ELSE a[2] # FloatZero \/ b[2] # FloatZero)
    ELSE (IF b[1] = -1 THEN FALSE ELSE FloatLess(a[2], b[2]))

\* Python's None where a dict, a tuple or a float is expected, and in a
\* string-valued slot (a YAML null, an omitted argument).
None == << >>
NoneStr == "<None>"

----------------------------------------------------------------------------
(* str.lower(), str.upper(), the `in` operator on strings *)

UpperLetters == "ABCDEFGHIJKLMNOPQRSTUVWXYZ"
LowerLetters == "abcdefghijklmnopqrstuvwxyz"

CharAt(s, i) == SubSeq(s, i, i)

LowerTable ==
    [c \in {CharAt(UpperLetters, i) : i \in 1..26} |->
        CharAt(LowerLetters, CHOOSE i \in 1..26 : CharAt(UpperLetters, i) = c)]

UpperTable ==
    [c \in {CharAt(LowerLetters, i) : i \in 1..26} |->
        CharAt(UpperLetters, CHOOSE i \in 1..26 : CharAt(LowerLetters, i) = c)]

RECURSIVE MapChars(_, _)
MapChars(table, s) ==
    IF s = "" THEN ""
    ELSE LET c == CharAt(s, 1)
         IN  (IF c \in DOMAIN table THEN table[c] ELSE c)
                 \o MapChars(table, SubSeq(s, 2, Len(s)))

Lower(s) == MapChars(LowerTable, s)
Upper(s) == MapChars(UpperTable, s)

\* s.strip(chars) for a single character
RECURSIVE LStrip(_, _)
LStrip(s, c) ==
    IF s # "" /\ CharAt(s, 1) = c THEN LStrip(SubSeq(s, 2, Len(s)), c) ELSE s

RECURSIVE RStrip(_, _)
RStrip(s, c) ==
    IF s # "" /\ CharAt(s, Len(s)) = c THEN RStrip(SubSeq(s, 1, Len(s) - 1), c) ELSE s

Strip(s, c) == RStrip(LStrip(s, c), c)

\* a in b
Contains(a, b) ==
    \E i \in 1..(Len(b) - Len(a) + 1) : SubSeq(b, i, i + Len(a) - 1) = a

----------------------------------------------------------------------------
(* filament_manufacturers.py *)

\* The table loaded from filament_manufacturers.yaml, as the tests pin it.
ShippedTable ==
    << "Polymaker", "Hatchbox", "Esun", "Prusament", "Sunlu", "Overture",
       "Matterhackers", "Colorfabb", "Eryone", "Atomic Filament" >>

\* What the module-level load can leave in TOP_MANUFACTURERS: the shipped
\* table, [] when the YAML file is missing, or the title-cased names of
\* another top_manufacturers list.
RankedTables ==
    { ShippedTable, << >>, << "Hatchbox" >>, << "Sunlu", "Sun", "Esun" >> }

\* A top_manufacturers list with one more file name than the shipped one;
\* the load takes a list of any length.
ExtendedTable == ShippedTable \o << "Bambu Lab" >>

\* (variant: the table entry is not lower-cased before the comparison)
EitherContains_CaseSensitive(top_mfr, manufacturer_lower) ==
    \/ Contains(top_mfr, manufacturer_lower)
    \/ Contains(manufacturer_lower, top_mfr)

\* top_mfr.lower() in manufacturer_lower or manufacturer_lower in top_mfr.lower()
EitherContains(top_mfr, manufacturer_lower) ==
    \/ Contains(Lower(top_mfr), manufacturer_lower)
    \/ Contains(manufacturer_lower, Lower(top_mfr))

\* (variant: an empty name is rejected before the scan)
is_top_manufacturer_NonEmpty(manufacturer) ==
    IF TOP_MANUFACTURERS = << >> \/ manufacturer = "" THEN FALSE
    ELSE \E i \in 1..Len(TOP_MANUFACTURERS) :
            \/ Contains(Lower(TOP_MANUFACTURERS[i]), Lower(manufacturer))
            \/ Contains(Lower(manufacturer), Lower(TOP_MANUFACTURERS[i]))

is_top_manufacturer(manufacturer) ==
    IF TOP_MANUFACTURERS = << >> THEN FALSE
    ELSE \E i \in 1..Len(TOP_MANUFACTURERS) :
            EitherContains(TOP_MANUFACTURERS[i], Lower(manufacturer))

\* for i, top_mfr in enumerate(TOP_MANUFACTURERS): first hit returns i + 1
RECURSIVE RankScan(_, _)
RankScan(manufacturer_lower, i) ==
    IF i > Len(TOP_MANUFACTURERS) THEN 999
    ELSE IF EitherContains(TOP_MANUFACTURERS[i], manufacturer_lower) THEN i
    ELSE RankScan(manufacturer_lower, i + 1)

\* (variant: only "table entry in name" is tested, not "name in table entry")
RECURSIVE RankScan_OneWay(_, _)
RankScan_OneWay(manufacturer_lower, i) ==
    IF i > Len(TOP_MANUFACTURERS) THEN 999
    ELSE IF Contains(Lower(TOP_MANUFACTURERS[i]), manufacturer_lower) THEN i
    ELSE RankScan_OneWay(manufacturer_lower, i + 1)

get_manufacturer_rank_OneWay(manufacturer) ==
    IF TOP_MANUFACTURERS = << >> THEN 999
    ELSE RankScan_OneWay(Lower(manufacturer), 1)

get_manufacturer_rank(manufacturer) ==
    IF TOP_MANUFACTURERS = << >> THEN 999
    ELSE RankScan(Lower(manufacturer), 1)

----------------------------------------------------------------------------
(* filament_scoring.py *)

\* (variant: a multiplier of 0.50)
RANK_MULTIPLIER_Half == FloatLiteral(50)

RANK_MULTIPLIER == FloatLiteral(56)

\* (variant: 10 - rank, so that rank 10 earns nothing)
calculate_manufacturer_bonus_TenMinusRank(manufacturer) ==
    LET rank == get_manufacturer_rank(manufacturer)
    IN  IF rank = 999 \/ rank = 10 THEN FloatZero
        ELSE FloatMulInt(10 - rank, RANK_MULTIPLIER)

\* (variant: 12 - rank, so that rank 1 earns 6.16)
calculate_manufacturer_bonus_TwelveMinusRank(manufacturer) ==
    LET rank == get_manufacturer_rank(manufacturer)
    IN  IF rank = 999 THEN FloatZero
        ELSE FloatMulInt(12 - rank, RANK_MULTIPLIER)

calculate_manufacturer_bonus(manufacturer) ==
    LET rank == get_manufacturer_rank(manufacturer)
    IN  IF rank = 999 THEN FloatZero
        ELSE FloatMulInt(11 - rank, RANK_MULTIPLIER)

\* (variant: the score is clamped to 100)
calculate_weighted_score_Clamped(similarity, manufacturer) ==
    LET w == FloatAdd(similarity, calculate_manufacturer_bonus(manufacturer))
    IN  IF FloatLess(FloatLiteral(10000), w) THEN FloatLiteral(10000) ELSE w

calculate_weighted_score(similarity, manufacturer) ==
    FloatAdd(similarity, calculate_manufacturer_bonus(manufacturer))

\* filament not in displayed
NotIn(filament, displayed) ==
    \A i \in 1..Len(displayed) : displayed[i] # filament

\* max(seq, key=weighted score): the scan keeps its best unless a later
\* element's key is strictly greater
RECURSIVE MaxByWeightedScore(_, _, _)
MaxByWeightedScore(seq, i, best) ==
    IF i > Len(seq) THEN best
    ELSE IF FloatLess(calculate_weighted_score(best[2], best[1].manufacturer),
                      calculate_weighted_score(seq[i][2], seq[i][1].manufacturer))
         THEN MaxByWeightedScore(seq, i + 1, seq[i])
         ELSE MaxByWeightedScore(seq, i + 1, best)

\* (variant: a later element with an equal key replaces the best)
RECURSIVE MaxByWeightedScore_LastWins(_, _, _)
MaxByWeightedScore_LastWins(seq, i, best) ==
    IF i > Len(seq) THEN best
    ELSE IF ~FloatLess(calculate_weighted_score(seq[i][2], seq[i][1].manufacturer),
                       calculate_weighted_score(best[2], best[1].manufacturer))
         THEN MaxByWeightedScore_LastWins(seq, i + 1, seq[i])
         ELSE MaxByWeightedScore_LastWins(seq, i + 1, best)

get_best_top_manufacturer_match_LastWins(matches, displayed) ==
    LET top_mfr_matches ==
            SelectSeq(matches,
                      LAMBDA m : /\ NotIn(m[1], displayed)
                                 /\ is_top_manufacturer(m[1].manufacturer))
    IN  IF top_mfr_matches = << >> THEN <<None, None>>
        ELSE MaxByWeightedScore_LastWins(top_mfr_matches, 2, top_mfr_matches[1])

\* (variant: the displayed filaments are not filtered out)
get_best_top_manufacturer_match_KeepsDisplayed(matches, displayed) ==
    LET top_mfr_matches ==
            SelectSeq(matches, LAMBDA m : is_top_manufacturer(m[1].manufacturer))
    IN  IF top_mfr_matches = << >> THEN <<None, None>>
        ELSE MaxByWeightedScore(top_mfr_matches, 2, top_mfr_matches[1])

\* matches: a list of <<filament, similarity>>; displayed: a list of
\* filaments (None is taken as [], and both are << >> here)
get_best_top_manufacturer_match(matches, displayed) ==
    LET top_mfr_matches ==
            SelectSeq(matches,
                      LAMBDA m : /\ NotIn(m[1], displayed)
                                 /\ is_top_manufacturer(m[1].manufacturer))
    IN  IF top_mfr_matches = << >> THEN <<None, None>>
        ELSE MaxByWeightedScore(top_mfr_matches, 2, top_mfr_matches[1])

----------------------------------------------------------------------------
(* compare_colors.py *)

\* A call that ends in an exception gives <<"raise", exception>>, one that
\* returns gives <<"ok", value>>.
Ok(value) == <<"ok", value>>
Raise(exception) == <<"raise", exception>>

HexDigits == "0123456789abcdef"

HexDigitValue ==
    [c \in {CharAt(HexDigits, i) : i \in 1..16} |->
        (CHOOSE i \in 1..16 : CharAt(HexDigits, i) = c) - 1]

\* (variant: the '#' is kept)
LStripHash_Keep(s) == s

\* hex_color.lstrip('#')
RECURSIVE LStripHash(_)
LStripHash(s) ==
    IF s # "" /\ CharAt(s, 1) = "#" THEN LStripHash(SubSeq(s, 2, Len(s))) ELSE s

\* int(two, 16) for two hex digits, in either letter case
HexPair(two) ==
    16 * HexDigitValue[Lower(CharAt(two, 1))] + HexDigitValue[Lower(CharAt(two, 2))]

IsHexDigit(c) == Lower(c) \in DOMAIN HexDigitValue

\* s[start:stop] for 0 <= start <= stop
PySlice(s, start, stop) ==
    IF start >= Len(s) THEN ""
    ELSE SubSeq(s, start + 1, IF stop < Len(s) THEN stop ELSE Len(s))

\* int(s, 16) for a string of at most two characters: blanks around the
\* number are dropped, then one or two hex digits, or a sign and one hex
\* digit, are a number; anything else ("", "0x", "1_", "GG") is a ValueError.
IntBase16(s) ==
    LET t == Strip(s, " ")
    IN  IF Len(t) = 1 /\ IsHexDigit(t)
        THEN Ok(HexDigitValue[Lower(t)])
        ELSE IF Len(t) = 2 /\ IsHexDigit(CharAt(t, 1)) /\ IsHexDigit(CharAt(t, 2))
        THEN Ok(HexPair(t))
        ELSE IF Len(t) = 2 /\ CharAt(t, 1) \in {"+", "-"} /\ IsHexDigit(CharAt(t, 2))
        THEN Ok((IF CharAt(t, 1) = "-" THEN -1 ELSE 1) * HexDigitValue[Lower(CharAt(t, 2))])
        ELSE Raise("ValueError")

\* tuple(int(hex_color[i:i+2], 16) for i in (0, 2, 4)) after lstrip('#')
hex_to_rgb(hex_color) ==
    LET h  == LStripHash(hex_color)
        c1 == IntBase16(PySlice(h, 0, 2))
        c2 == IntBase16(PySlice(h, 2, 4))
        c3 == IntBase16(PySlice(h, 4, 6))
    IN  IF c1[1] = "ok" /\ c2[1] = "ok" /\ c3[1] = "ok"
        THEN Ok(<<c1[2], c2[2], c3[2]>>)
        ELSE Raise("ValueError")

\* format(v, "02x"): lower-case hex digits, padded with zeros to two
RECURSIVE HexDigitsOf(_)
HexDigitsOf(v) ==
    IF v < 16 THEN CharAt(HexDigits, v + 1)
    ELSE HexDigitsOf(v \div 16) \o CharAt(HexDigits, (v % 16) + 1)

\* (variant: no padding)
Format02x_NoPad(v) == HexDigitsOf(v)

Format02x(v) == IF v < 16 THEN "0" \o HexDigitsOf(v) ELSE HexDigitsOf(v)

\* f"#{r:02x}{g:02x}{b:02x}"
rgb_to_hex(r, g, b) == "#" \o Format02x(r) \o Format02x(g) \o Format02x(b)

\* max(0, 100 * (1 - delta_e_cie76 / 100.0)) as color_similarity_percentage
\* computes it, for the colours of the model: the float it returns, in limbs.
Cie76SimilarityTable ==
    ( <<255, 1, 0>> :> ( <<255, 0, 0>> :> <<6548835, 4241088, 6684672>> @@
                         <<254, 1, 1>> :> <<6517559, 475128, 2621440>>  @@
                         <<204, 0, 0>> :> <<5283310, 5920661, 1638400>> @@
                         <<0, 0, 255>> :> FloatZero ) ) @@
    ( <<0, 0, 254>> :> ( <<255, 0, 0>> :> FloatZero @@
                         <<254, 1, 1>> :> FloatZero @@
                         <<204, 0, 0>> :> FloatZero @@
                         <<0, 0, 255>> :> <<6525865, 8215218, 65536>> ) ) @@
    ( <<255, 0, 0>> :> ( <<254, 1, 1>> :> <<6516382, 8192336, 3473408>> @@
                         <<253, 2, 2>> :> <<6479147, 2600882, 917504>> @@
                         <<252, 3, 3>> :> <<6441893, 1673679, 3997696>> @@
                         <<238, 0, 0>> :> <<6135448, 4405767, 4849664>> ) )

\* color_similarity_percentage(hex1, hex2) with the default method
color_similarity_percentage(hex1, hex2) ==
    LET rgb1 == hex_to_rgb(hex1)[2]
        rgb2 == hex_to_rgb(hex2)[2]
    IN  IF rgb1 = rgb2 THEN FloatLiteral(10000)
        ELSE Cie76SimilarityTable[rgb1][rgb2]

\* 100 * (1 - distance / max_distance) as color_similarity_percentage
\* computes it before the max(0, ...), for each method and the colours of
\* SimilarityHexes: <<sign, magnitude>>, the magnitude in limbs. The
\* distances are those of delta_e_cie76, delta_e_cie94,
\* euclidean_distance_rgb and weighted_rgb_distance, the normalizers 100.0,
\* 100.0, 441.67 and 765.0.
ScaledSimilarityTable ==
    "delta_e_cie76" :>
    ( <<255, 0, 0>> :> ( <<255, 0, 0>> :> <<1, <<6553600, 0, 0>>>> @@
          <<254, 1, 1>> :> <<1, <<6516382, 8192336, 3473408>>>> @@
          <<0, 0, 255>> :> <<-1, <<5001316, 7262216, 1179648>>>> @@
          <<0, 0, 0>> :> <<-1, <<1135550, 2969665, 3194880>>>> @@
          <<255, 255, 255>> :> <<-1, <<952345, 6160557, 32768>>>> ) @@
      <<254, 1, 1>> :> ( <<255, 0, 0>> :> <<1, <<6516382, 8192336, 3473408>>>> @@
          <<254, 1, 1>> :> <<1, <<6553600, 0, 0>>>> @@
          <<0, 0, 255>> :> <<-1, <<4970743, 233, 5636096>>>> @@
          <<0, 0, 0>> :> <<-1, <<1099985, 4864862, 4440064>>>> @@
          <<255, 255, 255>> :> <<-1, <<926245, 5954664, 1933312>>>> ) @@
      <<0, 0, 255>> :> ( <<255, 0, 0>> :> <<-1, <<5001316, 7262216, 1179648>>>> @@
          <<254, 1, 1>> :> <<-1, <<4970743, 233, 5636096>>>> @@
          <<0, 0, 255>> :> <<1, <<6553600, 0, 0>>>> @@
          <<0, 0, 0>> :> <<-1, <<2467442, 6948082, 262144>>>> @@
          <<255, 255, 255>> :> <<-1, <<3274216, 7664559, 5439488>>>> ) @@
      <<0, 0, 0>> :> ( <<255, 0, 0>> :> <<-1, <<1135550, 2969665, 3194880>>>> @@
          <<254, 1, 1>> :> <<-1, <<1099985, 4864862, 4440064>>>> @@
          <<0, 0, 255>> :> <<-1, <<2467442, 6948082, 262144>>>> @@
          <<0, 0, 0>> :> <<1, <<6553600, 0, 0>>>> @@
          <<255, 255, 255>> :> <<-1, <<0, 2125723, 2441216>>>> ) @@
      <<255, 255, 255>> :> ( <<255, 0, 0>> :> <<-1, <<952345, 6160557, 32768>>>> @@
          <<254, 1, 1>> :> <<-1, <<926245, 5954664, 1933312>>>> @@
          <<0, 0, 255>> :> <<-1, <<3274216, 7664559, 5439488>>>> @@
          <<0, 0, 0>> :> <<-1, <<0, 2125723, 2441216>>>> @@
          <<255, 255, 255>> :> <<1, <<6553600, 0, 0>>>> ) ) @@
    "delta_e_cie94" :>
    ( <<255, 0, 0>> :> ( <<255, 0, 0>> :> <<1, <<6553600, 0, 0>>>> @@
          <<254, 1, 1>> :> <<1, <<6539854, 6472711, 5963776>>>> @@
          <<0, 0, 255>> :> <<1, <<1928038, 6069124, 1310720>>>> @@
          <<0, 0, 0>> :> <<1, <<2863476, 7054048, 5996544>>>> @@
          <<255, 255, 255>> :> <<1, <<3262218, 3636821, 4128768>>>> ) @@
      <<254, 1, 1>> :> ( <<255, 0, 0>> :> <<1, <<6539840, 8379066, 2949120>>>> @@
          <<254, 1, 1>> :> <<1, <<6553600, 0, 0>>>> @@
          <<0, 0, 255>> :> <<1, <<1931518, 1434360, 8175616>>>> @@
          <<0, 0, 0>> :> <<1, <<2874964, 670753, 3407872>>>> @@
          <<255, 255, 255>> :> <<1, <<3251619, 1486048, 2293760>>>> ) @@
      <<0, 0, 255>> :> ( <<255, 0, 0>> :> <<1, <<2540039, 2273164, 7110656>>>> @@
          <<254, 1, 1>> :> <<1, <<2554833, 7529528, 7110656>>>> @@
          <<0, 0, 255>> :> <<1, <<6553600, 0, 0>>>> @@
          <<0, 0, 0>> :> <<1, <<4095976, 7733864, 327680>>>> @@
          <<255, 255, 255>> :> <<1, <<1944189, 643841, 1458176>>>> ) @@
      <<0, 0, 0>> :> ( <<255, 0, 0>> :> <<-1, <<1135550, 2969665, 3194880>>>> @@
          <<254, 1, 1>> :> <<-1, <<1099985, 4864862, 4440064>>>> @@
          <<0, 0, 255>> :> <<-1, <<2467442, 6948082, 360448>>>> @@
          <<0, 0, 0>> :> <<1, <<6553600, 0, 0>>>> @@
          <<255, 255, 255>> :> <<-1, <<0, 2125723, 2441216>>>> ) @@
      <<255, 255, 255>> :> ( <<255, 0, 0>> :> <<-1, <<952340, 5720091, 4702208>>>> @@
          <<254, 1, 1>> :> <<-1, <<926240, 5786221, 5357568>>>> @@
          <<0, 0, 255>> :> <<-1, <<3274210, 4975663, 8224768>>>> @@
          <<0, 0, 0>> :> <<-1, <<0, 2125723, 2441216>>>> @@
          <<255, 255, 255>> :> <<1, <<6553600, 0, 0>>>> ) ) @@
    "rgb" :>
    ( <<255, 0, 0>> :> ( <<255, 0, 0>> :> <<1, <<6553600, 0, 0>>>> @@
          <<254, 1, 1>> :> <<1, <<6527899, 3656092, 1048576>>>> @@
          <<0, 0, 255>> :> <<1, <<1202572, 1636356, 4259840>>>> @@
          <<0, 0, 0>> :> <<1, <<2769851, 7992795, 2621440>>>> @@
          <<255, 255, 255>> :> <<1, <<1202572, 1636356, 4259840>>>> ) @@
      <<254, 1, 1>> :> ( <<255, 0, 0>> :> <<1, <<6527899, 3656092, 1048576>>>> @@
          <<254, 1, 1>> :> <<1, <<6553600, 0, 0>>>> @@
          <<0, 0, 255>> :> <<1, <<1223535, 8085896, 1245184>>>> @@
          <<0, 0, 0>> :> <<1, <<2784631, 6397866, 7274496>>>> @@
          <<255, 255, 255>> :> <<1, <<1223535, 8085896, 1245184>>>> ) @@
      <<0, 0, 255>> :> ( <<255, 0, 0>> :> <<1, <<1202572, 1636356, 4259840>>>> @@
          <<254, 1, 1>> :> <<1, <<1223535, 8085896, 1245184>>>> @@
          <<0, 0, 255>> :> <<1, <<6553600, 0, 0>>>> @@
          <<0, 0, 0>> :> <<1, <<2769851, 7992795, 2621440>>>> @@
          <<255, 255, 255>> :> <<1, <<1202572, 1636356, 4259840>>>> ) @@
      <<0, 0, 0>> :> ( <<255, 0, 0>> :> <<1, <<2769851, 7992795, 2621440>>>> @@
          <<254, 1, 1>> :> <<1, <<2784631, 6397866, 7274496>>>> @@
          <<0, 0, 255>> :> <<1, <<2769851, 7992795, 2621440>>>> @@
          <<0, 0, 0>> :> <<1, <<6553600, 0, 0>>>> @@
          <<255, 255, 255>> :> <<-1, <<43, 7220604, 6230016>>>> ) @@
      <<255, 255, 255>> :> ( <<255, 0, 0>> :> <<1, <<1202572, 1636356, 4259840>>>> @@
          <<254, 1, 1>> :> <<1, <<1223535, 8085896, 1245184>>>> @@
          <<0, 0, 255>> :> <<1, <<1202572, 1636356, 4259840>>>> @@
          <<0, 0, 0>> :> <<-1, <<43, 7220604, 6230016>>>> @@
          <<255, 255, 255>> :> <<1, <<6553600, 0, 0>>>> ) ) @@
    "weighted_rgb" :>
    ( <<255, 0, 0>> :> ( <<255, 0, 0>> :> <<1, <<6553600, 0, 0>>>> @@
          <<254, 1, 1>> :> <<1, <<6527905, 1558523, 5439488>>>> @@
          <<0, 0, 255>> :> <<1, <<1670743, 3789276, 262144>>>> @@
          <<0, 0, 0>> :> <<1, <<3100899, 194178, 4423680>>>> @@
          <<255, 255, 255>> :> <<1, <<1202608, 60666, 7307264>>>> ) @@
      <<254, 1, 1>> :> ( <<255, 0, 0>> :> <<1, <<6527905, 1558523, 5439488>>>> @@
          <<254, 1, 1>> :> <<1, <<6553600, 0, 0>>>> @@
          <<0, 0, 255>> :> <<1, <<1689861, 6125655, 7880704>>>> @@
          <<0, 0, 0>> :> <<1, <<3115714, 3209990, 2949120>>>> @@
          <<255, 255, 255>> :> <<1, <<1222704, 1977868, 147456>>>> ) @@
      <<0, 0, 255>> :> ( <<255, 0, 0>> :> <<1, <<1670743, 3789276, 262144>>>> @@
          <<254, 1, 1>> :> <<1, <<1689861, 6125655, 7880704>>>> @@
          <<0, 0, 255>> :> <<1, <<6553600, 0, 0>>>> @@
          <<0, 0, 0>> :> <<1, <<2772341, 3685830, 6258688>>>> @@
          <<255, 255, 255>> :> <<1, <<984947, 6523514, 1556480>>>> ) @@
      <<0, 0, 0>> :> ( <<255, 0, 0>> :> <<1, <<3100899, 194178, 4423680>>>> @@
          <<254, 1, 1>> :> <<1, <<3115714, 3209990, 2949120>>>> @@
          <<0, 0, 255>> :> <<1, <<2772341, 3685830, 6258688>>>> @@
          <<0, 0, 0>> :> <<1, <<6553600, 0, 0>>>> @@
          <<255, 255, 255>> :> <<1, <<1422, 3158954, 3266560>>>> ) @@
      <<255, 255, 255>> :> ( <<255, 0, 0>> :> <<1, <<1202608, 60666, 7307264>>>> @@
          <<254, 1, 1>> :> <<1, <<1222704, 1977868, 147456>>>> @@
          <<0, 0, 255>> :> <<1, <<984947, 6523514, 1556480>>>> @@
          <<0, 0, 0>> :> <<1, <<1422, 3158954, 3266560>>>> @@
          <<255, 255, 255>> :> <<1, <<6553600, 0, 0>>>> ) )

SimilarityMethods == DOMAIN ScaledSimilarityTable

\* A call that passes no method.
Omitted == "<omitted>"

\* method: str = 'delta_e_cie76'
DefaultMethod == "delta_e_cie76"

\* (variant: the absolute value)
PyMax0_Abs(v) == v[2]

\* max(0, v): v when v > 0, else 0
PyMax0(v) == IF v[1] = -1 THEN FloatZero ELSE v[2]

\* (variant: an unknown method is taken as the default)
color_similarity_percentage_method_NoError(hex1, hex2, method_arg) ==
    LET method == IF method_arg \in SimilarityMethods THEN method_arg ELSE DefaultMethod
        rgb1   == hex_to_rgb(hex1)
        rgb2   == hex_to_rgb(hex2)
    IN  IF rgb1[1] # "ok" THEN rgb1
        ELSE IF rgb2[1] # "ok" THEN rgb2
        ELSE Ok(PyMax0(ScaledSimilarityTable[method][rgb1[2]][rgb2[2]]))

\* color_similarity_percentage(hex1, hex2, method): the method is looked up
\* first, then the distance function parses hex1 and hex2
color_similarity_percentage_method(hex1, hex2, method_arg) ==
    LET method == IF method_arg = Omitted THEN DefaultMethod ELSE method_arg
        rgb1   == hex_to_rgb(hex1)
        rgb2   == hex_to_rgb(hex2)
    IN  IF method \notin SimilarityMethods THEN Raise("ValueError: Unknown method")
        ELSE IF rgb1[1] # "ok" THEN rgb1
        ELSE IF rgb2[1] # "ok" THEN rgb2
        ELSE Ok(PyMax0(ScaledSimilarityTable[method][rgb1[2]][rgb2[2]]))

----------------------------------------------------------------------------
(* filament_colors.py *)

\* ALL_FILAMENTS is the nested dict manufacturer -> material -> colour ->
\* data, held as the sequence of its entries in iteration order:
\* [manufacturer, material, color, hex] with hex a string or NoneStr (null).
\* The result dicts carry the same fields (source and temperatures are
\* copied along and read by none of the matching functions).

get_filaments_with_hex ==
    SelectSeq(ALL_FILAMENTS, LAMBDA e : e.hex # NoneStr)

\* The loop of get_filaments_by_hex from entry i on: color_data.get("hex", "")
\* is None for a null hex, and None.strip raises AttributeError.
RECURSIVE ExactScan(_, _, _)
ExactScan(hex_normalized, i, matches) ==
    IF i > Len(ALL_FILAMENTS) THEN Ok(matches)
    ELSE LET color_data == ALL_FILAMENTS[i]
         IN  IF color_data.hex = NoneStr THEN Raise("AttributeError")
             ELSE LET stored_hex == Upper(Strip(color_data.hex, "#"))
                  IN  IF stored_hex = hex_normalized
                      THEN ExactScan(hex_normalized, i + 1,
                                     Append(matches,
                                            [color_data EXCEPT !.hex = "#" \o stored_hex]))
                      ELSE ExactScan(hex_normalized, i + 1, matches)

get_filaments_by_hex(hex_code) ==
    ExactScan(Upper(Strip(hex_code, "#")), 1, << >>)

\* if manufacturer: (neither None nor "")
Truthy(str) == str # NoneStr /\ str # ""

\* (variant: the substring match of get_manufacturer_rank)
FilterByManufacturer_Substring(filaments, manufacturer) ==
    IF Truthy(manufacturer)
    THEN SelectSeq(filaments,
                   LAMBDA f : EitherContains(f.manufacturer, Lower(manufacturer)))
    ELSE filaments

FilterByManufacturer(filaments, manufacturer) ==
    IF Truthy(manufacturer)
    THEN SelectSeq(filaments,
                   LAMBDA f : Lower(f.manufacturer) = Lower(manufacturer))
    ELSE filaments

\* (variant: an element goes before the elements with an equal key)
RECURSIVE InsertBySimilarity_Unstable(_, _, _)
InsertBySimilarity_Unstable(sorted, m, i) ==
    IF i > Len(sorted) THEN Append(sorted, m)
    ELSE IF ~FloatLess(m[2], sorted[i][2])
         THEN SubSeq(sorted, 1, i - 1) \o <<m>> \o SubSeq(sorted, i, Len(sorted))
         ELSE InsertBySimilarity_Unstable(sorted, m, i + 1)

\* list.sort(key=similarity, reverse=True): stable, an element goes after
\* every element whose key is not less than its own
RECURSIVE InsertBySimilarity(_, _, _)
InsertBySimilarity(sorted, m, i) ==
    IF i > Len(sorted) THEN Append(sorted, m)
    ELSE IF FloatLess(sorted[i][2], m[2])
         THEN SubSeq(sorted, 1, i - 1) \o <<m>> \o SubSeq(sorted, i, Len(sorted))
         ELSE InsertBySimilarity(sorted, m, i + 1)

RECURSIVE SortBySimilarityDesc(_, _, _)
SortBySimilarityDesc(matches, i, sorted) ==
    IF Len(sorted) = Len(matches) THEN sorted
    ELSE SortBySimilarityDesc(matches, i + 1, InsertBySimilarity(sorted, matches[i], 1))

\* seq[:limit]
SliceTo(seq, limit) ==
    LET n    == Len(seq)
        stop == IF limit < 0 THEN (IF n + limit > 0 THEN n + limit ELSE 0)
                ELSE (IF limit < n THEN limit ELSE n)
    IN  SubSeq(seq, 1, stop)

find_similar_filament_colors(target_hex, limit, manufacturer) ==
    LET filaments == FilterByManufacturer(get_filaments_with_hex, manufacturer)
        matches   == [i \in 1..Len(filaments) |->
                        <<filaments[i],
                          color_similarity_percentage(target_hex, filaments[i].hex)>>]
    IN  IF filaments = << >> THEN << >>
        ELSE SliceTo(SortBySimilarityDesc(matches, 1, << >>), limit)

\* The loop of find_similar_filament_color and of find_closest_color over
\* <<candidate, similarity>> pairs: the running best starts at (None, -1).
\* (variant: >= in place of >)
RECURSIVE ScanBest_LastWins(_, _, _, _)
ScanBest_LastWins(pairs, i, best_match, best_similarity) ==
    IF i > Len(pairs) THEN <<best_match, best_similarity>>
    ELSE IF ~SignedLess(<<1, pairs[i][2]>>, best_similarity)
         THEN ScanBest_LastWins(pairs, i + 1, pairs[i][1], <<1, pairs[i][2]>>)
         ELSE ScanBest_LastWins(pairs, i + 1, best_match, best_similarity)

\* if similarity > best_similarity: best_similarity, best_match = ...
RECURSIVE ScanBest(_, _, _, _)
ScanBest(pairs, i, best_match, best_similarity) ==
    IF i > Len(pairs) THEN <<best_match, best_similarity>>
    ELSE IF SignedLess(best_similarity, <<1, pairs[i][2]>>)
         THEN ScanBest(pairs, i + 1, pairs[i][1], <<1, pairs[i][2]>>)
         ELSE ScanBest(pairs, i + 1, best_match, best_similarity)

\* (variant: no test for an empty list, the pair is returned as it stands)
find_similar_filament_color_NoGuard(target_hex, manufacturer) ==
    LET filaments == FilterByManufacturer(get_filaments_with_hex, manufacturer)
        pairs     == [i \in 1..Len(filaments) |->
                        <<filaments[i],
                          color_similarity_percentage(target_hex, filaments[i].hex)>>]
        best      == ScanBest(pairs, 1, None, MinusOne)
    IN  <<best[1], best[2][2]>>

find_similar_filament_color(target_hex, manufacturer) ==
    LET filaments == FilterByManufacturer(get_filaments_with_hex, manufacturer)
        pairs     == [i \in 1..Len(filaments) |->
                        <<filaments[i],
                          color_similarity_percentage(target_hex, filaments[i].hex)>>]
        best      == ScanBest(pairs, 1, None, MinusOne)
    IN  IF filaments = << >> THEN None
        ELSE IF best[1] # None THEN <<best[1], best[2][2]>> ELSE None

\* find_closest_color(target_hex, color_list) of compare_colors.py, on a
\* list of (name, hex_color)
find_closest_color(target_hex, color_list) ==
    LET pairs == [i \in 1..Len(color_list) |->
                    <<color_list[i],
                      color_similarity_percentage(target_hex, color_list[i][2])>>]
        best  == ScanBest(pairs, 1, None, MinusOne)
    IN  IF best[1] = None THEN None
        ELSE <<best[1][1], best[1][2], best[2][2]>>

----------------------------------------------------------------------------
(* main.py: display_team_colors, the suggestions for one team colour *)

MAX_SUGGESTIONS == 3
MIN_SUGGESTIONS == 3

\* limit=50 of the call of find_similar_filament_colors
SimilarLimit == 50

\* match.get("link")
HasLink(match) == Truthy(match.link)

\* (variant: the last record with a link)
RECURSIVE FirstWithLink_Last(_, _)
FirstWithLink_Last(rest, i) ==
    IF i > Len(rest) THEN << >>
    ELSE LET later == FirstWithLink_Last(rest, i + 1)
         IN  IF later # << >> THEN later
             ELSE IF HasLink(rest[i]) THEN <<rest[i]>> ELSE << >>

\* for match in matches[MAX_SUGGESTIONS:]: if match.get("link"): ... break
RECURSIVE FirstWithLink(_, _)
FirstWithLink(rest, i) ==
    IF i > Len(rest) THEN << >>
    ELSE IF HasLink(rest[i]) THEN <<rest[i]>>
    ELSE FirstWithLink(rest, i + 1)

\* (variant: the last record of the lowest rank)
RECURSIVE MinByRank_LastWins(_, _, _)
MinByRank_LastWins(seq, i, best) ==
    IF i > Len(seq) THEN best
    ELSE IF get_manufacturer_rank(seq[i].manufacturer)
                <= get_manufacturer_rank(best.manufacturer)
         THEN MinByRank_LastWins(seq, i + 1, seq[i])
         ELSE MinByRank_LastWins(seq, i + 1, best)

\* min(top_matches, key=rank): the first record of the lowest rank
RECURSIVE MinByRank(_, _, _)
MinByRank(seq, i, best) ==
    IF i > Len(seq) THEN best
    ELSE IF get_manufacturer_rank(seq[i].manufacturer)
                < get_manufacturer_rank(best.manufacturer)
         THEN MinByRank(seq, i + 1, seq[i])
         ELSE MinByRank(seq, i + 1, best)

\* [match for match in matches
\*  if match not in displayed_matches and is_top_manufacturer(match["manufacturer"])]
RECURSIVE TopMatchesNotDisplayed(_, _, _)
TopMatchesNotDisplayed(matches, displayed_matches, i) ==
    IF i > Len(matches) THEN << >>
    ELSE IF NotIn(matches[i], displayed_matches)
            /\ is_top_manufacturer(matches[i].manufacturer)
         THEN <<matches[i]>> \o TopMatchesNotDisplayed(matches, displayed_matches, i + 1)
         ELSE TopMatchesNotDisplayed(matches, displayed_matches, i + 1)

\* The branch for a non-empty list of exact matches: the records printed
\* first, the record printed as "First exact match with purchase link" and
\* the one printed as "Nearest exact match from top manufacturer" (each a
\* list of none or one).
ExactBranch(matches) ==
    LET display_matches   == SliceTo(matches, MAX_SUGGESTIONS)
        has_link          == \E i \in 1..Len(display_matches) : HasLink(display_matches[i])
        link_backfill     == IF has_link THEN << >>
                             ELSE FirstWithLink(SubSeq(matches, MAX_SUGGESTIONS + 1,
                                                       Len(matches)), 1)
        displayed_matches == display_matches \o link_backfill
        has_top_manufacturer ==
            \E i \in 1..Len(displayed_matches) :
                is_top_manufacturer(displayed_matches[i].manufacturer)
        top_matches       == TopMatchesNotDisplayed(matches, displayed_matches, 1)
    IN  [branch        |-> "exact",
         shown         |-> display_matches,
         link_backfill |-> link_backfill,
         top_backfill  |-> IF has_top_manufacturer \/ top_matches = << >> THEN << >>
                           ELSE <<MinByRank(top_matches, 2, top_matches[1])>>]

\* (variant: the order of the raw similarity is kept)
RECURSIVE InsertByWeightedScore_Raw(_, _, _)
InsertByWeightedScore_Raw(sorted, m, i) ==
    IF i > Len(sorted) THEN Append(sorted, m)
    ELSE IF FloatLess(sorted[i][2][2], m[2][2])
         THEN SubSeq(sorted, 1, i - 1) \o <<m>> \o SubSeq(sorted, i, Len(sorted))
         ELSE InsertByWeightedScore_Raw(sorted, m, i + 1)

\* all_matches.sort(key=weighted score, reverse=True): the key is computed
\* once for each element, and the sort is stable. The elements are held as
\* <<key, match>> while they are sorted.
RECURSIVE InsertByWeightedScore(_, _, _)
InsertByWeightedScore(sorted, m, i) ==
    IF i > Len(sorted) THEN Append(sorted, m)
    ELSE IF FloatLess(sorted[i][1], m[1])
         THEN SubSeq(sorted, 1, i - 1) \o <<m>> \o SubSeq(sorted, i, Len(sorted))
         ELSE InsertByWeightedScore(sorted, m, i + 1)

RECURSIVE SortByWeightedScoreDesc(_, _, _)
SortByWeightedScoreDesc(matches, i, sorted) ==
    IF Len(sorted) = Len(matches) THEN [k \in 1..Len(sorted) |-> sorted[k][2]]
    ELSE SortByWeightedScoreDesc(
             matches, i + 1,
             InsertByWeightedScore(
                 sorted,
                 <<calculate_weighted_score(matches[i][2], matches[i][1].manufacturer),
                   matches[i]>>,
                 1))

\* for filament, similarity in all_matches:
\*     if filament.get("link") and filament not in displayed_filaments: ... break
RECURSIVE FirstLinkedNotDisplayed(_, _, _)
FirstLinkedNotDisplayed(all_matches, displayed_filaments, i) ==
    IF i > Len(all_matches) THEN << >>
    ELSE IF HasLink(all_matches[i][1]) /\ NotIn(all_matches[i][1], displayed_filaments)
         THEN <<all_matches[i]>>
         ELSE FirstLinkedNotDisplayed(all_matches, displayed_filaments, i + 1)

\* [filament for filament, similarity in pairs]
FilamentsOf(pairs) == [i \in 1..Len(pairs) |-> pairs[i][1]]

\* if filament: (of the pair that get_best_top_manufacturer_match returned)
TopBackfill(best) == IF best[1] = None THEN << >> ELSE <<best>>

\* (variant: the candidate of the lowest rank, as for exact matches)
SimilarTopBackfill_ByRank(all_matches, displayed_filaments) ==
    LET top == {k \in 1..Len(all_matches) :
                   /\ NotIn(all_matches[k][1], displayed_filaments)
                   /\ is_top_manufacturer(all_matches[k][1].manufacturer)}
    IN  IF \/ \E i \in 1..Len(displayed_filaments) :
                  is_top_manufacturer(displayed_filaments[i].manufacturer)
           \/ top = {}
        THEN << >>
        ELSE <<all_matches[CHOOSE k \in top : \A j \in top :
                   get_manufacturer_rank(all_matches[k][1].manufacturer)
                       <= get_manufacturer_rank(all_matches[j][1].manufacturer)]>>

\* The manufacturer backfill of the branch for no exact match
SimilarTopBackfill(all_matches, displayed_filaments) ==
    IF \E i \in 1..Len(displayed_filaments) :
           is_top_manufacturer(displayed_filaments[i].manufacturer)
    THEN << >>
    ELSE TopBackfill(get_best_top_manufacturer_match(all_matches, displayed_filaments))

\* (variant: the first candidate with a link, displayed or not)
SimilarLinkBackfill_Always(all_matches, similar_matches, shown_filaments) ==
    FirstLinkedNotDisplayed(all_matches, << >>, 1)

\* The link backfill of the branch for no exact match
SimilarLinkBackfill(all_matches, similar_matches, shown_filaments) ==
    IF \E i \in 1..Len(similar_matches) : HasLink(similar_matches[i][1])
    THEN << >>
    ELSE FirstLinkedNotDisplayed(all_matches, shown_filaments, 1)

\* if similar_matches: the pairs printed first and the two backfills
SimilarDisplayed(all_matches, similar_matches, shown_filaments, link_backfill) ==
    [branch        |-> "similar",
     shown         |-> similar_matches,
     link_backfill |-> link_backfill,
     top_backfill  |-> SimilarTopBackfill(all_matches,
                                          shown_filaments \o FilamentsOf(link_backfill))]

\* similar_matches = all_matches[:MIN_SUGGESTIONS]
SimilarShown(all_matches, similar_matches, shown_filaments) ==
    IF similar_matches = << >>
    THEN [branch |-> "similar", shown |-> << >>, link_backfill |-> << >>,
          top_backfill |-> << >>]
    ELSE SimilarDisplayed(all_matches, similar_matches, shown_filaments,
                          SimilarLinkBackfill(all_matches, similar_matches,
                                              shown_filaments))

SimilarOf(all_matches, similar_matches) ==
    SimilarShown(all_matches, similar_matches, FilamentsOf(similar_matches))

SimilarSorted(all_matches) ==
    SimilarOf(all_matches, SliceTo(all_matches, MIN_SUGGESTIONS))

\* The branch for no exact match: the <<filament, similarity>> pairs printed
\* first, the pair printed as "Nearest match with purchase link" and the one
\* printed as "Nearest match from top manufacturer" (each a list of none or
\* one).
SimilarBranch(hex_code) ==
    SimilarSorted(SortByWeightedScoreDesc(
                      find_similar_filament_colors(hex_code, SimilarLimit, NoneStr),
                      1, << >>))

\* The body of the loop over the team's colours, for one hex_code
DisplayOf(hex_code, matches) ==
    IF matches[1] # "ok" THEN matches
    ELSE IF matches[2] # << >> THEN Ok(ExactBranch(matches[2]))
    ELSE Ok(SimilarBranch(hex_code))

display_team_colors(hex_code) == DisplayOf(hex_code, get_filaments_by_hex(hex_code))

----------------------------------------------------------------------------
(* Inputs *)

CaseVariants(s) == {s, Lower(s), Upper(s)}

\* Manufacturer names given to the ranking functions: every shipped name in
\* three letter cases, the names of the tests, the empty name, and names
\* that contain, or are contained in, more than one table entry.
ManufacturerNames ==
    UNION {CaseVariants(ShippedTable[i]) : i \in 1..Len(ShippedTable)}
    \cup { "", "Unknown Brand", "Random Filament Co", "Generic PLA",
           "Polymaker PLA Pro", "Hatchbox True Black", "eSUN Silk Rainbow",
           "PoLyMaKeR", "Sun", "maker", "Hatchbox Polymaker", "Atomic",
           "Bambu Lab" }

\* Similarities, in cents: 0.0, 5.03, 5.04, 5.05, 5.6, 5.61, 89.0, 95.0, 99.5, 100.0
SimilarityCents == {0, 503, 504, 505, 560, 561, 8900, 9500, 9950, 10000}

\* Names of the two candidates whose scores are compared.
CandidateNames ==
    { "Polymaker", "Atomic Filament", "Hatchbox", "eSUN Silk Rainbow",
      "Unknown Brand", "" }

BoundedSeqs(S, n) == UNION {[1..k -> S] : k \in 0..n}

\* Filaments handed to get_best_top_manufacturer_match.
PolymakerRed  == [manufacturer |-> "Polymaker", color |-> "Red"]
PolymakerBlue == [manufacturer |-> "Polymaker", color |-> "Blue"]
AtomicRed     == [manufacturer |-> "Atomic Filament", color |-> "Red"]
UnknownRed    == [manufacturer |-> "Unknown Brand", color |-> "Red"]

\* <<filament, similarity in cents>>: two Polymaker records with one score,
\* 95 Polymaker against 100 Atomic Filament, an unranked record with the
\* highest similarity, and 80.01 Polymaker against 85.05 Atomic Filament,
\* whose sums are the same float.
MatchPool ==
    { <<PolymakerRed, 9500>>, <<PolymakerBlue, 9500>>,
      <<AtomicRed, 10000>>, <<UnknownRed, 10000>>,
      <<PolymakerBlue, 8001>>, <<AtomicRed, 8505>> }

MaxMatches == 3

DisplayedLists ==
    { << >>, <<PolymakerRed>>, <<AtomicRed, UnknownRed>>,
      <<PolymakerRed, PolymakerBlue>> }

\* Catalog entries; no two share manufacturer, material and colour (they are
\* keys of the nested dict).
CatalogPool ==
    { [manufacturer |-> "Polymaker", material |-> "PLA", color |-> "Red",
       hex |-> "#FF0000"],
      [manufacturer |-> "Atomic Filament", material |-> "PLA", color |-> "Red",
       hex |-> "#FE0101"],
      [manufacturer |-> "Unknown Brand", material |-> "PETG", color |-> "Crimson",
       hex |-> "ff0000"],
      [manufacturer |-> "polymaker", material |-> "PLA", color |-> "Dark Red",
       hex |-> "#cc0000"],
      [manufacturer |-> "Overture", material |-> "PLA", color |-> "Blue",
       hex |-> "#0000FF"],
      [manufacturer |-> "Hatchbox", material |-> "PLA", color |-> "Unmeasured",
       hex |-> NoneStr] }

MaxCatalog == 3

Catalogs ==
    {c \in BoundedSeqs(CatalogPool, MaxCatalog) :
        \A i \in 1..Len(c), j \in 1..Len(c) : i # j => c[i] # c[j]}

TargetHexes == {"#FF0100", "0000fe"}

Limits == {-1, 0, 1, 2, 3, 50}

ManufacturerFilters == {NoneStr, "", "POLYMAKER", "poly"}

\* Strings handed to hex_to_rgb: well formed in several spellings, too short,
\* too long, with characters that are no hex digits.
HexStrings ==
    { "#FF0000", "ff0000", "#Ab09cD", "000000", "#ffffff",
      "", "#", "abc", "1234", "#FF00", "12345", "#12345",
      "#1234567", "12345678", "#FF0000#", "##FF0000",
      "#GG0000", "#ff00zz", "#12345g", "0x0000", "1_0000",
      "+f0000", "-f0000", " f0000", "#-1-2-3" }

\* Colours handed to color_similarity_percentage: red in three spellings,
\* a near red, blue, black, white in two spellings, and two strings that
\* hex_to_rgb rejects.
SimilarityHexes ==
    { "#FF0000", "ff0000", "FF0000", "#fe0101", "#0000FF", "#000000",
      "FFFFFF", "#ffffff", "#GG0000", "" }

MethodArguments ==
    SimilarityMethods \cup {Omitted, "cie76", "RGB", "delta_e_cie2000", ""}

ChannelValues == {0, 1, 9, 10, 15, 16, 17, 127, 128, 160, 171, 254, 255}

\* Catalog entries for display_team_colors: red in several spellings, with
\* and without a purchase link (None or ""), of ranked and unranked
\* manufacturers.
DisplayPool ==
    { [manufacturer |-> "Unknown Brand", material |-> "PLA", color |-> "Red",
       hex |-> "#FF0000", link |-> NoneStr],
      [manufacturer |-> "Generic", material |-> "PLA", color |-> "Red",
       hex |-> "ff0000", link |-> NoneStr],
      [manufacturer |-> "Unknown Brand", material |-> "PETG", color |-> "Red",
       hex |-> "#ff0000", link |-> ""],
      [manufacturer |-> "Polymaker", material |-> "PLA", color |-> "Red",
       hex |-> "#FF0000", link |-> NoneStr],
      [manufacturer |-> "Polymaker PolyTerra", material |-> "PLA", color |-> "Red",
       hex |-> "#FF0000", link |-> NoneStr],
      [manufacturer |-> "Overture", material |-> "PLA", color |-> "Red",
       hex |-> "FF0000", link |-> "https://overture3d.com/red"],
      [manufacturer |-> "Unknown Brand", material |-> "ABS", color |-> "Red",
       hex |-> "#FF0000", link |-> "https://example.com/red"] }

MaxDisplay == 5

\* ALL_FILAMENTS is a dict of manufacturers, each a dict of materials, each
\* a dict of colours: no key occurs twice, and the iteration keeps the
\* records of a manufacturer, and within it those of a material, together.
Grouped(c) ==
    /\ \A i \in 1..Len(c), j \in 1..Len(c) : i # j => c[i] # c[j]
    /\ \A i \in 1..Len(c), j \in 1..Len(c), k \in 1..Len(c) :
          i < j /\ j < k /\ c[i].manufacturer = c[k].manufacturer =>
              /\ c[j].manufacturer = c[i].manufacturer
              /\ c[i].material = c[k].material => c[j].material = c[i].material

DisplayCatalogs == {c \in BoundedSeqs(DisplayPool, MaxDisplay) : Grouped(c)}

\* Catalog entries near the red of DisplayTargets, none equal to it. Their
\* similarity to #FF0000 and their weighted score:
\*   #FE0101 Unknown Brand    99.43  99.43
\*   #FD0202 Atomic Filament  98.86  99.42
\*   #EE0000 Polymaker        93.62  99.22
\*   #FC0303 Generic          98.30  98.30
NearPool ==
    { [manufacturer |-> "Unknown Brand", material |-> "PLA", color |-> "Near Red",
       hex |-> "#FE0101", link |-> NoneStr],
      [manufacturer |-> "Unknown Brand", material |-> "PLA", color |-> "Bright Red",
       hex |-> "#FE0101", link |-> NoneStr],
      [manufacturer |-> "Unknown Brand", material |-> "PETG", color |-> "Near Red",
       hex |-> "#fe0101", link |-> "https://example.com/near-red"],
      [manufacturer |-> "Unknown Brand", material |-> "ABS", color |-> "Near Red",
       hex |-> "FE0101", link |-> NoneStr],
      [manufacturer |-> "Atomic Filament", material |-> "PLA", color |-> "Fire Red",
       hex |-> "#FD0202", link |-> NoneStr],
      [manufacturer |-> "Polymaker", material |-> "PLA", color |-> "Dark Red",
       hex |-> "#EE0000", link |-> "https://polymaker.com/dark-red"],
      [manufacturer |-> "Generic", material |-> "PLA", color |-> "Signal Red",
       hex |-> "#FC0303", link |-> "https://example.com/signal-red"] }

MaxNear == 5

NearestCatalogs == {c \in BoundedSeqs(NearPool, MaxNear) : Grouped(c)}

\* A manufacturer with many colours of one hex, 98.30 similar to #FF0000.
DigitNames == <<"0", "1", "2", "3", "4", "5", "6", "7", "8", "9">>

FillerRecord(k) ==
    [manufacturer |-> "Bulk Brand", material |-> "PLA",
     color |-> "Red " \o DigitNames[(k \div 10) + 1] \o DigitNames[(k % 10) + 1],
     hex |-> "#FC0303", link |-> NoneStr]

FillerCount == 50

\* Catalogs of as many records as SimilarLimit, and of one more
LargeCatalogs ==
    {[k \in 1..FillerCount |-> FillerRecord(k)] \o c :
        c \in {<< >>} \cup {<<r>> : r \in NearPool}}

DisplayTargets == {"#FF0000"}

ExactTargets == {"#FF0000", "ff0000", "Ff0000#", "#fe0101", "#123456"}

----------------------------------------------------------------------------
(* One call of a function on the loaded tables.  The functions are pure, so *)
(* a behaviour is: load the globals, make one call, look at what it returns *)

Init ==
    /\ TOP_MANUFACTURERS \in RankedTables
    /\ ALL_FILAMENTS = << >>
    /\ pc = "ready"
    /\ call = [op |-> "none"]
    /\ ret = "none"
    /\ ALL_TEAMS = << >>
    /\ locals = [fn |-> "none"]
    /\ io = << >>

Call_is_top_manufacturer ==
    /\ pc = "ready"
    /\ \E m \in ManufacturerNames :
        /\ call' = [op |-> "is_top_manufacturer", manufacturer |-> m]
        /\ ret' = is_top_manufacturer(m)
    /\ pc' = "returned"
    /\ UNCHANGED <<TOP_MANUFACTURERS, ALL_FILAMENTS, ALL_TEAMS, locals, io>>

Call_get_manufacturer_rank ==
    /\ pc = "ready"
    /\ \E m \in ManufacturerNames :
        /\ call' = [op |-> "get_manufacturer_rank", manufacturer |-> m]
        /\ ret' = get_manufacturer_rank(m)
    /\ pc' = "returned"
    /\ UNCHANGED <<TOP_MANUFACTURERS, ALL_FILAMENTS, ALL_TEAMS, locals, io>>

Call_calculate_manufacturer_bonus ==
    /\ pc = "ready"
    /\ \E m \in ManufacturerNames :
        /\ call' = [op |-> "calculate_manufacturer_bonus", manufacturer |-> m]
        /\ ret' = calculate_manufacturer_bonus(m)
    /\ pc' = "returned"
    /\ UNCHANGED <<TOP_MANUFACTURERS, ALL_FILAMENTS, ALL_TEAMS, locals, io>>

Call_calculate_weighted_score ==
    /\ pc = "ready"
    /\ \E s \in SimilarityCents, m \in ManufacturerNames :
        /\ call' = [op |-> "calculate_weighted_score",
                    similarity |-> s, manufacturer |-> m]
        /\ ret' = calculate_weighted_score(FloatLiteral(s), m)
    /\ pc' = "returned"
    /\ UNCHANGED <<TOP_MANUFACTURERS, ALL_FILAMENTS, ALL_TEAMS, locals, io>>

\* Two candidates scored and compared, as the tests and the weighted sort do:
\* ret = <<first score, second score, first > second>>
CompareWeightedScores ==
    /\ pc = "ready"
    /\ \E s1 \in SimilarityCents, s2 \in SimilarityCents,
          m1 \in CandidateNames, m2 \in CandidateNames :
        /\ call' = [op |-> "compare_weighted_scores",
                    similarity1 |-> s1, manufacturer1 |-> m1,
                    similarity2 |-> s2, manufacturer2 |-> m2]
        /\ ret' = LET w1 == calculate_weighted_score(FloatLiteral(s1), m1)
                      w2 == calculate_weighted_score(FloatLiteral(s2), m2)
                  IN  <<w1, w2, FloatLess(w2, w1)>>
    /\ pc' = "returned"
    /\ UNCHANGED <<TOP_MANUFACTURERS, ALL_FILAMENTS, ALL_TEAMS, locals, io>>

Next ==
    \/ Call_is_top_manufacturer
    \/ Call_get_manufacturer_rank
    \/ Call_calculate_manufacturer_bonus
    \/ Call_calculate_weighted_score
    \/ CompareWeightedScores

Spec == Init /\ [][Next]_vars

Returned(op) == pc = "returned" /\ call.op = op

Raised(op) == pc = "raised" /\ call.op = op

----------------------------------------------------------------------------
(* The rank functions on tables of any length *)

InitRanked ==
    /\ TOP_MANUFACTURERS \in RankedTables \cup {ExtendedTable}
    /\ ALL_FILAMENTS = << >>
    /\ pc = "ready"
    /\ call = [op |-> "none"]
    /\ ret = "none"
    /\ ALL_TEAMS = << >>
    /\ locals = [fn |-> "none"]
    /\ io = << >>

NextRanked ==
    \/ Call_is_top_manufacturer
    \/ Call_get_manufacturer_rank
    \/ Call_calculate_manufacturer_bonus

SpecRanked == InitRanked /\ [][NextRanked]_vars

----------------------------------------------------------------------------
(* get_best_top_manufacturer_match on lists of matches *)

InitBest ==
    /\ TOP_MANUFACTURERS \in {ShippedTable, << >>}
    /\ ALL_FILAMENTS = << >>
    /\ pc = "ready"
    /\ call = [op |-> "none"]
    /\ ret = "none"
    /\ ALL_TEAMS = << >>
    /\ locals = [fn |-> "none"]
    /\ io = << >>

Call_get_best_top_manufacturer_match ==
    /\ pc = "ready"
    /\ \E ms \in BoundedSeqs(MatchPool, MaxMatches), displayed \in DisplayedLists :
        LET matches == [i \in 1..Len(ms) |-> <<ms[i][1], FloatLiteral(ms[i][2])>>]
        IN  /\ call' = [op |-> "get_best_top_manufacturer_match",
                        matches |-> matches, displayed |-> displayed]
            /\ ret' = get_best_top_manufacturer_match(matches, displayed)
    /\ pc' = "returned"
    /\ UNCHANGED <<TOP_MANUFACTURERS, ALL_FILAMENTS, ALL_TEAMS, locals, io>>

NextBest == Call_get_best_top_manufacturer_match

SpecBest == InitBest /\ [][NextBest]_vars

----------------------------------------------------------------------------
(* The colour functions of compare_colors.py *)

InitColor ==
    /\ TOP_MANUFACTURERS = ShippedTable
    /\ ALL_FILAMENTS = << >>
    /\ pc = "ready"
    /\ call = [op |-> "none"]
    /\ ret = "none"
    /\ ALL_TEAMS = << >>
    /\ locals = [fn |-> "none"]
    /\ io = << >>

Call_hex_to_rgb ==
    /\ pc = "ready"
    /\ \E hex_color \in HexStrings :
        LET result == hex_to_rgb(hex_color)
        IN  /\ call' = [op |-> "hex_to_rgb", hex_color |-> hex_color]
            /\ pc' = (IF result[1] = "ok" THEN "returned" ELSE "raised")
            /\ ret' = result[2]
    /\ UNCHANGED <<TOP_MANUFACTURERS, ALL_FILAMENTS, ALL_TEAMS, locals, io>>

\* hex_to_rgb(rgb_to_hex(r, g, b))
Call_rgb_to_hex ==
    /\ pc = "ready"
    /\ \E r \in ChannelValues, g \in ChannelValues, b \in ChannelValues :
        LET hex    == rgb_to_hex(r, g, b)
            result == hex_to_rgb(hex)
        IN  /\ call' = [op |-> "rgb_to_hex", r |-> r, g |-> g, b |-> b, hex |-> hex]
            /\ pc' = (IF result[1] = "ok" THEN "returned" ELSE "raised")
            /\ ret' = result[2]
    /\ UNCHANGED <<TOP_MANUFACTURERS, ALL_FILAMENTS, ALL_TEAMS, locals, io>>

Call_color_similarity_percentage ==
    /\ pc = "ready"
    /\ \E hex1 \in SimilarityHexes, hex2 \in SimilarityHexes, method \in MethodArguments :
        LET result == color_similarity_percentage_method(hex1, hex2, method)
        IN  /\ call' = [op |-> "color_similarity_percentage",
                        hex1 |-> hex1, hex2 |-> hex2, method |-> method]
            /\ pc' = (IF result[1] = "ok" THEN "returned" ELSE "raised")
            /\ ret' = result[2]
    /\ UNCHANGED <<TOP_MANUFACTURERS, ALL_FILAMENTS, ALL_TEAMS, locals, io>>

NextColor ==
    \/ Call_hex_to_rgb
    \/ Call_rgb_to_hex
    \/ Call_color_similarity_percentage

SpecColor == InitColor /\ [][NextColor]_vars

----------------------------------------------------------------------------
(* display_team_colors on a loaded catalog *)

InitDisplay ==
    /\ TOP_MANUFACTURERS = ShippedTable
    /\ ALL_FILAMENTS \in DisplayCatalogs \cup NearestCatalogs \cup LargeCatalogs
    /\ pc = "ready"
    /\ call = [op |-> "none"]
    /\ ret = "none"
    /\ ALL_TEAMS = << >>
    /\ locals = [fn |-> "none"]
    /\ io = << >>

Call_display_team_colors ==
    /\ pc = "ready"
    /\ \E hex_code \in DisplayTargets :
        LET result == display_team_colors(hex_code)
        IN  /\ call' = [op |-> "display_team_colors", hex_code |-> hex_code]
            /\ pc' = (IF result[1] = "ok" THEN "returned" ELSE "raised")
            /\ ret' = result[2]
    /\ UNCHANGED <<TOP_MANUFACTURERS, ALL_FILAMENTS, ALL_TEAMS, locals, io>>

NextDisplay == Call_display_team_colors

SpecDisplay == InitDisplay /\ [][NextDisplay]_vars

----------------------------------------------------------------------------
(* The matching functions on a loaded catalog *)

InitCatalog ==
    /\ TOP_MANUFACTURERS = ShippedTable
    /\ ALL_FILAMENTS \in Catalogs
    /\ pc = "ready"
    /\ call = [op |-> "none"]
    /\ ret = "none"
    /\ ALL_TEAMS = << >>
    /\ locals = [fn |-> "none"]
    /\ io = << >>

Call_find_similar_filament_colors ==
    /\ pc = "ready"
    /\ \E target_hex \in TargetHexes, limit \in Limits,
          manufacturer \in ManufacturerFilters :
        /\ call' = [op |-> "find_similar_filament_colors",
                    target_hex |-> target_hex, limit |-> limit,
                    manufacturer |-> manufacturer]
        /\ ret' = find_similar_filament_colors(target_hex, limit, manufacturer)
    /\ pc' = "returned"
    /\ UNCHANGED <<TOP_MANUFACTURERS, ALL_FILAMENTS, ALL_TEAMS, locals, io>>

Call_find_similar_filament_color ==
    /\ pc = "ready"
    /\ \E target_hex \in TargetHexes, manufacturer \in ManufacturerFilters :
        /\ call' = [op |-> "find_similar_filament_color",
                    target_hex |-> target_hex, manufacturer |-> manufacturer]
        /\ ret' = find_similar_filament_color(target_hex, manufacturer)
    /\ pc' = "returned"
    /\ UNCHANGED <<TOP_MANUFACTURERS, ALL_FILAMENTS, ALL_TEAMS, locals, io>>

Call_get_filaments_by_hex ==
    /\ pc = "ready"
    /\ \E hex_code \in ExactTargets :
        LET result == get_filaments_by_hex(hex_code)
        IN  /\ call' = [op |-> "get_filaments_by_hex", hex_code |-> hex_code]
            /\ pc' = (IF result[1] = "ok" THEN "returned" ELSE "raised")
            /\ ret' = result[2]
    /\ UNCHANGED <<TOP_MANUFACTURERS, ALL_FILAMENTS, ALL_TEAMS, locals, io>>

\* find_closest_color on the names and colours of the catalog
Call_find_closest_color ==
    /\ pc = "ready"
    /\ \E target_hex \in TargetHexes :
        LET filaments  == get_filaments_with_hex
            color_list == [i \in 1..Len(filaments) |->
                             <<filaments[i].color, filaments[i].hex>>]
        IN  /\ call' = [op |-> "find_closest_color",
                        target_hex |-> target_hex, color_list |-> color_list]
            /\ ret' = find_closest_color(target_hex, color_list)
    /\ pc' = "returned"
    /\ UNCHANGED <<TOP_MANUFACTURERS, ALL_FILAMENTS, ALL_TEAMS, locals, io>>

\* get_best_top_manufacturer_match on the matches of the catalog, as
\* display_team_colors calls it, with none or the first of them displayed
Call_get_best_of_similar ==
    /\ pc = "ready"
    /\ \E target_hex \in TargetHexes, shown \in 0..1 :
        LET all_matches == find_similar_filament_colors(target_hex, 50, NoneStr)
            displayed   == [i \in 1..(IF shown < Len(all_matches) THEN shown
                                        ELSE Len(all_matches)) |-> all_matches[i][1]]
        IN  /\ call' = [op |-> "get_best_top_manufacturer_match",
                        matches |-> all_matches, displayed |-> displayed]
            /\ ret' = get_best_top_manufacturer_match(all_matches, displayed)
    /\ pc' = "returned"
    /\ UNCHANGED <<TOP_MANUFACTURERS, ALL_FILAMENTS, ALL_TEAMS, locals, io>>

NextCatalog ==
    \/ Call_find_similar_filament_colors
    \/ Call_find_similar_filament_color
    \/ Call_get_filaments_by_hex
    \/ Call_find_closest_color
    \/ Call_get_best_of_similar

SpecCatalog == InitCatalog /\ [][NextCatalog]_vars


----------------------------------------------------------------------------
(* Manufacturer rank *)

\* The table entries in an either-way containment relation with a name.
RelatedEntries(name) ==
    {i \in 1..Len(TOP_MANUFACTURERS) :
        \/ Contains(Lower(TOP_MANUFACTURERS[i]), Lower(name))
        \/ Contains(Lower(name), Lower(TOP_MANUFACTURERS[i]))}

\* C3: get_manufacturer_rank returns the 1-indexed position of the first table
\* entry that, ignoring case, contains the name or is contained in it, and
\* 999 exactly when no entry is in such a relation with the name.
C3_RankIsFirstRelatedEntry ==
    Returned("get_manufacturer_rank") =>
        LET hits == RelatedEntries(call.manufacturer)
        IN  /\ (ret = 999) <=> (hits = {})
            /\ hits # {} => ret \in hits /\ \A j \in hits : ret <= j

\* A name containing two ranked names got the smaller of their ranks.
C3_Witness ==
    /\ Returned("get_manufacturer_rank")
    /\ TOP_MANUFACTURERS = ShippedTable
    /\ call.manufacturer = "Hatchbox Polymaker"
    /\ RelatedEntries(call.manufacturer) = {1, 2}
    /\ ret = 1

\* C4: for the empty name and a non-empty table, get_manufacturer_rank
\* returns 1 and is_top_manufacturer returns True.
C4_EmptyNameRanksFirst ==
    /\ Returned("get_manufacturer_rank") /\ call.manufacturer = ""
            /\ TOP_MANUFACTURERS # << >>
        => ret = 1
    /\ Returned("is_top_manufacturer") /\ call.manufacturer = ""
            /\ TOP_MANUFACTURERS # << >>
        => ret = TRUE

C4_Witness ==
    /\ Returned("is_top_manufacturer")
    /\ call.manufacturer = ""
    /\ TOP_MANUFACTURERS = ShippedTable
    /\ ret = TRUE

\* C5: with the shipped table of 10 names, the rank of each table entry, in
\* any letter case, is that entry's 1-indexed position.
C5_ShippedEntriesRankAtOwnPosition ==
    /\ Len(ShippedTable) = 10
    /\ Returned("get_manufacturer_rank") /\ TOP_MANUFACTURERS = ShippedTable
        => \A i \in 1..Len(ShippedTable) :
              Lower(call.manufacturer) = Lower(ShippedTable[i]) => ret = i

C5_Witness ==
    /\ Returned("get_manufacturer_rank")
    /\ TOP_MANUFACTURERS = ShippedTable
    /\ call.manufacturer = "ATOMIC FILAMENT"
    /\ ret = 10

----------------------------------------------------------------------------
(* Bonus and weighted score *)

\* C6: the bonus is 0.0 for rank 999 and (11 - rank) * 0.56 otherwise; over
\* ranks 1..10 it is strictly decreasing in rank, 5.60 at rank 1 and 0.56 at
\* rank 10 (to two decimals), and strictly positive.
C6_BonusFormula ==
    Returned("calculate_manufacturer_bonus") =>
        LET rank == get_manufacturer_rank(call.manufacturer)
        IN  /\ rank = 999 => ret = FloatZero
            /\ rank # 999 =>
                /\ rank \in 1..10
                /\ ret = FloatMulInt(11 - rank, FloatLiteral(56))
                /\ FloatCents(ret) = (11 - rank) * 56
                /\ FloatLess(FloatZero, ret)
                /\ \A n \in ManufacturerNames :
                      get_manufacturer_rank(n) = rank + 1
                          => FloatLess(calculate_manufacturer_bonus(n), ret)

C6_Witness ==
    /\ Returned("calculate_manufacturer_bonus")
    /\ TOP_MANUFACTURERS = ShippedTable
    /\ call.manufacturer = "Atomic Filament"
    /\ FloatCents(ret) = 56

\* C7: the weighted score is similarity + bonus, not clamped: the raw
\* similarity for an unranked manufacturer, more than 100 for a ranked one
\* with a similarity of 99.5 or more.
C7_WeightedScoreIsSum ==
    Returned("calculate_weighted_score") =>
        LET similarity == FloatLiteral(call.similarity)
            rank       == get_manufacturer_rank(call.manufacturer)
        IN  /\ ret = FloatAdd(similarity,
                              calculate_manufacturer_bonus(call.manufacturer))
            /\ rank = 999 => ret = similarity
            /\ rank # 999 /\ call.similarity >= 9950
                  => FloatLess(FloatLiteral(10000), ret)

C7_Witness ==
    /\ Returned("calculate_weighted_score")
    /\ TOP_MANUFACTURERS = ShippedTable
    /\ call.manufacturer = "Polymaker"
    /\ call.similarity = 10000
    /\ FloatCents(ret) = 10560

\* The rank-1 name scored against the rank-10 name of the shipped table.
PolymakerVersusAtomic ==
    /\ Returned("compare_weighted_scores")
    /\ TOP_MANUFACTURERS = ShippedTable
    /\ call.manufacturer1 = "Polymaker"
    /\ call.manufacturer2 = "Atomic Filament"

\* C8 as stated: the Polymaker score is greater than the Atomic Filament
\* score exactly when s2 - s1 < 5.04.
C8_CrossoverExactlyBelow504 ==
    PolymakerVersusAtomic =>
        (ret[3] <=> call.similarity2 - call.similarity1 < 504)

\* C8 as amended: the Polymaker score is greater whenever s2 - s1 < 5.04 and
\* is not greater whenever s2 - s1 > 5.04; 95 beats 100 and 89 loses to 95.
\* (At s2 - s1 = 5.04 the rounding of the two sums decides.)
C8_CrossoverAwayFromBoundary ==
    PolymakerVersusAtomic =>
        /\ call.similarity2 - call.similarity1 < 504 => ret[3]
        /\ call.similarity2 - call.similarity1 > 504 => ~ret[3]
        /\ call.similarity1 = 9500 /\ call.similarity2 = 10000 => ret[3]
        /\ call.similarity1 = 8900 /\ call.similarity2 = 9500
              => FloatLess(ret[1], ret[2])

C8_Witness ==
    /\ PolymakerVersusAtomic
    /\ call.similarity1 = 9500
    /\ call.similarity2 = 10000
    /\ FloatCents(ret[1]) = 10060
    /\ FloatCents(ret[2]) = 10056
    /\ ret[3]

----------------------------------------------------------------------------
(* get_best_top_manufacturer_match *)

\* Positions of the pairs whose record is not displayed and whose
\* manufacturer is ranked.
Eligible ==
    {i \in 1..Len(call.matches) :
        /\ \A k \in 1..Len(call.displayed) : call.displayed[k] # call.matches[i][1]
        /\ get_manufacturer_rank(call.matches[i][1].manufacturer) # 999}

Weighted(i) ==
    FloatAdd(call.matches[i][2],
             calculate_manufacturer_bonus(call.matches[i][1].manufacturer))

\* C1: when some pair is eligible, the returned pair is an eligible pair, no
\* eligible pair has a greater weighted score, and every eligible pair
\* before it in matches has a smaller one.
C1_BestIsFirstMaximalEligible ==
    Returned("get_best_top_manufacturer_match") /\ Eligible # {} =>
        \E i \in Eligible :
            /\ ret = call.matches[i]
            /\ \A j \in Eligible : ~FloatLess(Weighted(i), Weighted(j))
            /\ \A j \in Eligible : j < i => FloatLess(Weighted(j), Weighted(i))

\* Two different eligible pairs had the maximal score; the first was returned.
C1_Witness ==
    /\ Returned("get_best_top_manufacturer_match")
    /\ Len(call.matches) = 3
    /\ Eligible = {1, 2, 3}
    /\ Weighted(2) = Weighted(3)
    /\ FloatLess(Weighted(1), Weighted(2))
    /\ call.matches[2] # call.matches[3]
    /\ ret = call.matches[2]

\* C2: the returned record is never a displayed one and never from an
\* unranked manufacturer; (None, None) is returned exactly when no pair is
\* eligible, as for the empty list.
C2_NeverDisplayedNeverUnranked ==
    Returned("get_best_top_manufacturer_match") =>
        /\ (ret = <<None, None>>) <=> (Eligible = {})
        /\ ret # <<None, None>> =>
            /\ \A k \in 1..Len(call.displayed) : call.displayed[k] # ret[1]
            /\ get_manufacturer_rank(ret[1].manufacturer) # 999
        /\ call.matches = << >> => ret = <<None, None>>

\* The displayed record had the highest weighted score and another was returned.
C2_Witness ==
    /\ Returned("get_best_top_manufacturer_match")
    /\ TOP_MANUFACTURERS = ShippedTable
    /\ call.displayed = <<PolymakerRed>>
    /\ call.matches = << <<PolymakerRed, FloatLiteral(9500)>>,
                         <<UnknownRed, FloatLiteral(10000)>>,
                         <<AtomicRed, FloatLiteral(8505)>> >>
    /\ ret = <<AtomicRed, FloatLiteral(8505)>>

----------------------------------------------------------------------------
(* find_similar_filament_colors *)

\* The candidates of the call: the catalog entries with a hex that pass the
\* manufacturer filter, in catalog order.
Candidates ==
    SelectSeq(ALL_FILAMENTS,
              LAMBDA e : /\ e.hex # NoneStr
                         /\ (call.manufacturer \in {NoneStr, ""}
                             \/ Lower(e.manufacturer) = Lower(call.manufacturer)))

CandidateSimilarity(i) ==
    color_similarity_percentage(call.target_hex, Candidates[i].hex)

\* The position among the candidates of the record of the k-th returned pair.
CandidateIndex(k) == CHOOSE i \in 1..Len(Candidates) : Candidates[i] = ret[k][1]

\* C10: for limit >= 0 the result has min(limit, number of candidates)
\* pairs <<record, similarity>>, each a candidate with its own similarity,
\* no candidate twice, in non-increasing order of raw similarity, equal
\* similarities in catalog order, and no candidate left out is more similar
\* than one returned.
C10_SortedStableTopLimit ==
    Returned("find_similar_filament_colors") /\ call.limit >= 0 =>
        LET n == Len(Candidates)
        IN  /\ Len(ret) = (IF call.limit < n THEN call.limit ELSE n)
            /\ \A k \in 1..Len(ret) :
                  /\ \E i \in 1..n : Candidates[i] = ret[k][1]
                  /\ ret[k][2] = CandidateSimilarity(CandidateIndex(k))
            /\ \A k \in 1..(Len(ret) - 1) :
                  /\ ~FloatLess(ret[k][2], ret[k + 1][2])
                  /\ ret[k][2] = ret[k + 1][2]
                        => CandidateIndex(k) < CandidateIndex(k + 1)
            /\ \A i \in 1..n :
                  (\A k \in 1..Len(ret) : ret[k][1] # Candidates[i])
                      => \A k \in 1..Len(ret) :
                            /\ ~FloatLess(ret[k][2], CandidateSimilarity(i))
                            /\ ret[k][2] = CandidateSimilarity(i)
                                  => CandidateIndex(k) < i

\* Three candidates, the first the least similar and the other two equally
\* similar: the limit of 2 kept the two, in catalog order.
C10_Witness ==
    /\ Returned("find_similar_filament_colors")
    /\ call.limit = 2
    /\ Len(Candidates) = 3
    /\ FloatLess(CandidateSimilarity(1), CandidateSimilarity(2))
    /\ CandidateSimilarity(2) = CandidateSimilarity(3)
    /\ Len(ret) = 2
    /\ ret[1][1] = Candidates[2]
    /\ ret[2][1] = Candidates[3]

----------------------------------------------------------------------------
(* The manufacturer filter *)

\* The catalog entries with a hex whose manufacturer is the filter of the
\* call, ignoring case, in catalog order.
SameManufacturer ==
    SelectSeq(ALL_FILAMENTS,
              LAMBDA e : /\ e.hex # NoneStr
                         /\ Lower(e.manufacturer) = Lower(call.manufacturer))

\* C11: with a manufacturer filter, every record the two functions return
\* has the filter as its manufacturer, ignoring case, as a whole string;
\* and every catalog entry with a hex and that manufacturer is a candidate:
\* find_similar_filament_colors returns all of them when the limit allows,
\* and find_similar_filament_color returns one that none of them exceeds
\* (and None only when there is none).
C11_FilterIsWholeStringEquality ==
    /\ Returned("find_similar_filament_colors") /\ Truthy(call.manufacturer) =>
          /\ \A k \in 1..Len(ret) :
                Lower(ret[k][1].manufacturer) = Lower(call.manufacturer)
          /\ call.limit >= Len(SameManufacturer) =>
                \A i \in 1..Len(SameManufacturer) :
                    \E k \in 1..Len(ret) : ret[k][1] = SameManufacturer[i]
    /\ Returned("find_similar_filament_color") /\ Truthy(call.manufacturer) =>
          /\ (ret = None) <=> (SameManufacturer = << >>)
          /\ ret # None =>
                /\ Lower(ret[1].manufacturer) = Lower(call.manufacturer)
                /\ \A i \in 1..Len(SameManufacturer) :
                      ~FloatLess(ret[2],
                                 color_similarity_percentage(call.target_hex,
                                                             SameManufacturer[i].hex))

\* The filter "POLYMAKER" kept the "Polymaker" and the "polymaker" entry and
\* dropped a more similar entry of another manufacturer.
C11_Witness ==
    /\ Returned("find_similar_filament_colors")
    /\ call.manufacturer = "POLYMAKER"
    /\ call.target_hex = "#FF0100"
    /\ Len(ALL_FILAMENTS) = 3
    /\ ALL_FILAMENTS[1].manufacturer = "polymaker"
    /\ ALL_FILAMENTS[2].manufacturer = "Atomic Filament"
    /\ ALL_FILAMENTS[3].manufacturer = "Polymaker"
    /\ call.limit = 50
    /\ Len(ret) = 2
    /\ ret[1][1] = ALL_FILAMENTS[3]
    /\ ret[2][1] = ALL_FILAMENTS[1]

----------------------------------------------------------------------------
(* get_filaments_by_hex *)

\* A hex with every '#' removed, in upper case.
RECURSIVE WithoutHash(_)
WithoutHash(h) ==
    IF h = "" THEN ""
    ELSE (IF CharAt(h, 1) = "#" THEN "" ELSE CharAt(h, 1))
            \o WithoutHash(SubSeq(h, 2, Len(h)))

NormalizedHex(h) == Upper(WithoutHash(h))

EntryKey(e) == <<e.manufacturer, e.material, e.color>>

\* The catalog entries whose stored hex is the target of the call after
\* normalization, in catalog order.
ExactEntries ==
    SelectSeq(ALL_FILAMENTS,
              LAMBDA e : /\ e.hex # NoneStr
                         /\ NormalizedHex(e.hex) = NormalizedHex(call.hex_code))

\* C12: get_filaments_by_hex(target) returns all and only the catalog
\* entries whose stored hex equals the target after removing '#' and
\* uppercasing on both sides, in catalog order.
C12_ExactMatchesAllAndOnly ==
    call.op = "get_filaments_by_hex" =>
        /\ pc = "returned"
        /\ Len(ret) = Len(ExactEntries)
        /\ \A i \in 1..Len(ExactEntries) : EntryKey(ret[i]) = EntryKey(ExactEntries[i])

----------------------------------------------------------------------------
(* hex_to_rgb, rgb_to_hex *)

\* A string of exactly six hex digits after one optional leading '#'.
WellFormedHex(h) ==
    LET d == IF h # "" /\ CharAt(h, 1) = "#" THEN SubSeq(h, 2, Len(h)) ELSE h
    IN  /\ Len(d) = 6
        /\ \A i \in 1..6 : Lower(CharAt(d, i)) \in {CharAt(HexDigits, k) : k \in 1..16}

\* C13: hex_to_rgb raises on every string that is not well formed, and
\* returns three integers in 0..255 only for a well-formed one.
C13_MalformedHexRaises ==
    call.op = "hex_to_rgb" =>
        /\ ~WellFormedHex(call.hex_color) => pc = "raised"
        /\ pc = "returned" =>
              /\ WellFormedHex(call.hex_color)
              /\ \A i \in 1..3 : ret[i] \in 0..255

\* C14: hex_to_rgb(rgb_to_hex(r, g, b)) = (r, g, b) for channels in
\* 0..255, and rgb_to_hex gives '#' and six lower-case hex digits.
C14_RoundTrip ==
    call.op = "rgb_to_hex" =>
        /\ pc = "returned"
        /\ ret = <<call.r, call.g, call.b>>
        /\ Len(call.hex) = 7
        /\ CharAt(call.hex, 1) = "#"
        /\ \A i \in 2..7 : CharAt(call.hex, i) \in {CharAt(HexDigits, k) : k \in 1..16}

\* A colour with a channel below 16, one with letters as digits.
C14_Witness ==
    /\ Returned("rgb_to_hex")
    /\ call.r = 10 /\ call.g = 0 /\ call.b = 171
    /\ call.hex = "#0a00ab"
    /\ ret = <<10, 0, 171>>

----------------------------------------------------------------------------
(* color_similarity_percentage *)

\* A call of color_similarity_percentage with two parseable colours and one
\* of the four methods (given or by default).
SimilarityOfValidColours ==
    /\ call.op = "color_similarity_percentage"
    /\ call.method \in SimilarityMethods \cup {Omitted}
    /\ WellFormedHex(call.hex1)
    /\ WellFormedHex(call.hex2)

MethodOfCall == IF call.method = Omitted THEN "delta_e_cie76" ELSE call.method

ScaledOfCall ==
    ScaledSimilarityTable[MethodOfCall][hex_to_rgb(call.hex1)[2]][hex_to_rgb(call.hex2)[2]]

\* The squared RGB distance of the two colours of the call.
SquaredRgbDistance ==
    LET a == hex_to_rgb(call.hex1)[2]
        b == hex_to_rgb(call.hex2)[2]
    IN  (b[1] - a[1]) * (b[1] - a[1]) + (b[2] - a[2]) * (b[2] - a[2])
            + (b[3] - a[3]) * (b[3] - a[3])

\* C15: for valid colours and each of the four methods the result is in
\* [0, 100]: it is 100 * (1 - distance / maxDistance) when that is
\* positive and 0 otherwise, so a distance above the normalizer (for rgb:
\* one whose square exceeds 441.67 squared) gives 0 and never a negative value.
C15_SimilarityInRange ==
    SimilarityOfValidColours =>
        /\ pc = "returned"
        /\ ~FloatLess(FloatLiteral(10000), ret)
        /\ ~FloatLess(ret, FloatZero)
        /\ ScaledOfCall[1] = -1 => ret = FloatZero
        /\ ScaledOfCall[1] = 1 => ret = ScaledOfCall[2]
        /\ MethodOfCall = "rgb" =>
              ((10000 * SquaredRgbDistance > 44167 * 44167) <=> (ScaledOfCall[1] = -1))

\* Black against white with the rgb method: the distance 441.6729... is
\* above the normalizer 441.67 and the result is 0.
C15_Witness ==
    /\ Returned("color_similarity_percentage")
    /\ call.hex1 = "#000000" /\ call.hex2 = "FFFFFF" /\ call.method = "rgb"
    /\ ScaledOfCall[1] = -1
    /\ ScaledOfCall[2] # FloatZero
    /\ ret = FloatZero

\* C16: the similarity of a colour with itself is 100 for every method,
\* also when the two arguments spell the colour differently.
C16_SameColourIs100 ==
    SimilarityOfValidColours /\ NormalizedHex(call.hex1) = NormalizedHex(call.hex2) =>
        pc = "returned" /\ ret = FloatLiteral(10000)

\* "#FF0000" against "ff0000" with delta_e_cie94.
C16_Witness ==
    /\ Returned("color_similarity_percentage")
    /\ call.hex1 = "#FF0000" /\ call.hex2 = "ff0000" /\ call.method = "delta_e_cie94"
    /\ ret = FloatLiteral(10000)

\* C17: a method name other than the four raises the unknown-method error
\* whatever the two hex arguments are; with no method given the result is
\* that of delta_e_cie76.
C17_UnknownMethodRaises ==
    call.op = "color_similarity_percentage" =>
        /\ call.method \notin SimilarityMethods \cup {Omitted} =>
              pc = "raised" /\ ret = "ValueError: Unknown method"
        /\ call.method = Omitted =>
              LET explicit == color_similarity_percentage_method(call.hex1, call.hex2,
                                                                 "delta_e_cie76")
              IN  /\ (pc = "returned") <=> (explicit[1] = "ok")
                  /\ ret = explicit[2]

\* An unknown method with a first argument that hex_to_rgb rejects.
C17_Witness ==
    /\ Raised("color_similarity_percentage")
    /\ call.method = "delta_e_cie2000"
    /\ call.hex1 = "#GG0000"
    /\ ret = "ValueError: Unknown method"

----------------------------------------------------------------------------
(* The best-match scans *)

\* The candidates of a best-match scan with their similarities, in scan
\* order: <<what is returned for the candidate, similarity>>.
ScanCandidates ==
    IF call.op = "find_closest_color"
    THEN [i \in 1..Len(call.color_list) |->
            LET sim == color_similarity_percentage(call.target_hex, call.color_list[i][2])
            IN  <<(<<call.color_list[i][1], call.color_list[i][2], sim>>), sim>>]
    ELSE LET filaments ==
                 SelectSeq(ALL_FILAMENTS,
                           LAMBDA e : /\ e.hex # NoneStr
                                      /\ (call.manufacturer \in {NoneStr, ""}
                                          \/ Lower(e.manufacturer) = Lower(call.manufacturer)))
         IN  [i \in 1..Len(filaments) |->
                LET sim == color_similarity_percentage(call.target_hex, filaments[i].hex)
                IN  <<(<<filaments[i], sim>>), sim>>]

\* C18: find_closest_color and find_similar_filament_color return the first
\* candidate in scan order that has the maximal similarity, and return a
\* candidate whenever there is one, also when every similarity is 0.
C18_FirstMaximalCandidate ==
    (Returned("find_closest_color") \/ Returned("find_similar_filament_color"))
        /\ Len(ScanCandidates) > 0 =>
            \E i \in 1..Len(ScanCandidates) :
                /\ ret = ScanCandidates[i][1]
                /\ \A j \in 1..Len(ScanCandidates) :
                      ~FloatLess(ScanCandidates[i][2], ScanCandidates[j][2])
                /\ \A j \in 1..(i - 1) :
                      FloatLess(ScanCandidates[j][2], ScanCandidates[i][2])

\* Three candidates, the first less similar than the other two, which are
\* equally similar: the second was returned.
C18_Witness ==
    /\ Returned("find_similar_filament_color")
    /\ Len(ScanCandidates) = 3
    /\ FloatLess(ScanCandidates[1][2], ScanCandidates[2][2])
    /\ ScanCandidates[2][2] = ScanCandidates[3][2]
    /\ ret = ScanCandidates[2][1]

----------------------------------------------------------------------------
(* Nothing to match *)

\* The call has no candidate: the catalog (for get_filaments_by_hex), the
\* entries with a hex that pass the manufacturer filter (for the two
\* find_similar functions), the colour list or the list of matches is empty.
NoCandidate ==
    CASE call.op = "get_filaments_by_hex" -> ALL_FILAMENTS = << >>
      [] call.op \in {"find_similar_filament_colors", "find_similar_filament_color"}
            -> Len(ScanCandidates) = 0
      [] call.op = "find_closest_color" -> call.color_list = << >>
      [] call.op = "get_best_top_manufacturer_match" -> call.matches = << >>
      [] OTHER -> FALSE

\* C19: with no candidate every matching function returns its empty result
\* and raises nothing: [] from get_filaments_by_hex and
\* find_similar_filament_colors, None from find_similar_filament_color and
\* find_closest_color, (None, None) from get_best_top_manufacturer_match.
C19_EmptyCatalogGivesEmptyResult ==
    pc # "ready" /\ NoCandidate =>
        /\ pc = "returned"
        /\ call.op \in {"get_filaments_by_hex", "find_similar_filament_colors"}
              => ret = << >>
        /\ call.op \in {"find_similar_filament_color", "find_closest_color"}
              => ret = None
        /\ call.op = "get_best_top_manufacturer_match" => ret = <<None, None>>

\* A catalog of three entries, none of the manufacturer asked for.
C19_Witness ==
    /\ Returned("find_similar_filament_color")
    /\ Len(ALL_FILAMENTS) = 3
    /\ ALL_FILAMENTS[1].manufacturer = "Polymaker"
    /\ call.manufacturer = "poly"
    /\ NoCandidate
    /\ ret = None

----------------------------------------------------------------------------
(* display_team_colors, exact matches *)

\* The exact matches of the colour of the call, in catalog order.
ExactMatchesOfCall == get_filaments_by_hex(call.hex_code)[2]

\* The positions after the third of the exact matches with a purchase link.
LinkedInRemainder ==
    {k \in (MAX_SUGGESTIONS + 1)..Len(ExactMatchesOfCall) :
        ExactMatchesOfCall[k].link \notin {NoneStr, ""}}

\* C20: with exact matches, the first three are displayed; a record is
\* appended for its purchase link if and only if none of those displayed
\* has a link and some later exact match has one, and it is then the first
\* later exact match with a link; never more than one.
C20_ExactLinkBackfill ==
    Returned("display_team_colors") /\ ret.branch = "exact" =>
        LET n     == Len(ExactMatchesOfCall)
            shown == IF n < MAX_SUGGESTIONS THEN n ELSE MAX_SUGGESTIONS
            none_shown_has_link ==
                \A k \in 1..shown : ExactMatchesOfCall[k].link \in {NoneStr, ""}
        IN  /\ ret.shown = SubSeq(ExactMatchesOfCall, 1, shown)
            /\ Len(ret.link_backfill) <= 1
            /\ (Len(ret.link_backfill) = 1)
                  <=> (none_shown_has_link /\ LinkedInRemainder # {})
            /\ Len(ret.link_backfill) = 1 =>
                  \E k \in LinkedInRemainder :
                      /\ ret.link_backfill[1] = ExactMatchesOfCall[k]
                      /\ \A j \in LinkedInRemainder : k <= j

\* Five exact matches, the first three without a link, the fourth and the
\* fifth with one: the fourth was appended.
C20_Witness ==
    /\ Returned("display_team_colors")
    /\ ret.branch = "exact"
    /\ Len(ExactMatchesOfCall) = 5
    /\ LinkedInRemainder = {4, 5}
    /\ ret.link_backfill = <<ExactMatchesOfCall[4]>>

----------------------------------------------------------------------------
(* display_team_colors, exact matches: the manufacturer backfill *)

\* The records printed before the manufacturer backfill.
DisplayedBeforeTop == ret.shown \o ret.link_backfill

\* The positions of the exact matches that are from a ranked manufacturer
\* and equal to no record printed before the manufacturer backfill.
RankedNotDisplayed ==
    {k \in 1..Len(ExactMatchesOfCall) :
        /\ get_manufacturer_rank(ExactMatchesOfCall[k].manufacturer) # 999
        /\ \A i \in 1..Len(DisplayedBeforeTop) :
               DisplayedBeforeTop[i] # ExactMatchesOfCall[k]}

\* C21: with exact matches, when no record displayed so far is from a ranked
\* manufacturer, the record appended is the exact match not yet displayed
\* whose manufacturer has the lowest rank, the first of them in exact-match
\* order among equal ranks; when a displayed record is from a ranked
\* manufacturer, or no such exact match exists, nothing is appended.
C21_ExactTopBackfillByRank ==
    Returned("display_team_colors") /\ ret.branch = "exact" =>
        IF \/ \E i \in 1..Len(DisplayedBeforeTop) :
                  get_manufacturer_rank(DisplayedBeforeTop[i].manufacturer) # 999
           \/ RankedNotDisplayed = {}
        THEN ret.top_backfill = << >>
        ELSE \E k \in RankedNotDisplayed :
                /\ ret.top_backfill = <<ExactMatchesOfCall[k]>>
                /\ \A j \in RankedNotDisplayed :
                      LET rank_k == get_manufacturer_rank(ExactMatchesOfCall[k].manufacturer)
                          rank_j == get_manufacturer_rank(ExactMatchesOfCall[j].manufacturer)
                      IN  rank_k < rank_j \/ (rank_k = rank_j /\ k <= j)

\* Three unranked records are shown; of the later exact matches the one of
\* rank 6 comes before two of rank 1, and the first of rank 1 was appended.
C21_Witness ==
    /\ Returned("display_team_colors")
    /\ ret.branch = "exact"
    /\ Cardinality(RankedNotDisplayed) >= 2
    /\ \E k \in RankedNotDisplayed, j \in RankedNotDisplayed :
          /\ k < j
          /\ get_manufacturer_rank(ExactMatchesOfCall[k].manufacturer)
                > get_manufacturer_rank(ExactMatchesOfCall[j].manufacturer)
          /\ ret.top_backfill = <<ExactMatchesOfCall[j]>>

----------------------------------------------------------------------------
(* display_team_colors, no exact match *)

\* The result of find_similar_filament_colors(hex_code, limit=50) for the
\* colour of the call.
NearestOfCall == find_similar_filament_colors(call.hex_code, SimilarLimit, NoneStr)

\* The weighted score of a <<filament, similarity>> pair.
WeightedOf(pair) == calculate_weighted_score(pair[2], pair[1].manufacturer)

\* The weighted scores of a list of pairs, in the order of the list.
WeightedScoresOf(pairs) ==
    SubSeq([k \in 1..Len(pairs) |-> WeightedOf(pairs[k])], 1, Len(pairs))

\* The place of element k of a list once the list is sorted by the scores,
\* highest first, equal scores in their order in the list.
PlaceByScore(scores, k) ==
    1 + Cardinality({j \in 1..Len(scores) :
                        \/ FloatLess(scores[k], scores[j])
                        \/ j < k /\ ~FloatLess(scores[j], scores[k])})

\* Each of the pairs shown is the pair of its place among the given pairs.
ShownByPlace(shown, pairs, scores) ==
    \A p \in 1..Len(shown) :
        \E k \in 1..Len(pairs) :
            shown[p] = pairs[k] /\ PlaceByScore(scores, k) = p

CandidateCount == Cardinality({i \in 1..Len(ALL_FILAMENTS) : ALL_FILAMENTS[i].hex # NoneStr})

\* C22: without an exact match, the suggestions displayed are the first
\* MIN_SUGGESTIONS of the result of find_similar_filament_colors(target,
\* limit=50) re-sorted by weighted score, highest first: as many as there
\* are candidates, up to three, in non-increasing weighted score.
C22_NearestAreTopWeighted ==
    Returned("display_team_colors") /\ ret.branch = "similar" =>
        /\ Len(ret.shown) = (IF CandidateCount < MIN_SUGGESTIONS THEN CandidateCount
                             ELSE MIN_SUGGESTIONS)
        /\ ShownByPlace(ret.shown, NearestOfCall, WeightedScoresOf(NearestOfCall))
        /\ \A p \in 1..(Len(ret.shown) - 1) :
              ~FloatLess(WeightedOf(ret.shown[p]), WeightedOf(ret.shown[p + 1]))

\* Four candidates or more, and the three displayed are not the three of
\* the highest raw similarity: the weighted score moved one up.
C22_Witness ==
    /\ Returned("display_team_colors")
    /\ ret.branch = "similar"
    /\ Len(NearestOfCall) >= 4
    /\ Len(ret.shown) = MIN_SUGGESTIONS
    /\ ret.shown # SubSeq(NearestOfCall, 1, MIN_SUGGESTIONS)

----------------------------------------------------------------------------
(* display_team_colors, no exact match: the link backfill *)

\* The positions of the candidates that have a purchase link and are equal
\* to none of the records displayed first.
LinkedNotShown(pairs) ==
    {k \in 1..Len(pairs) :
        /\ pairs[k][1].link \notin {NoneStr, ""}
        /\ \A p \in 1..Len(ret.shown) : ret.shown[p][1] # pairs[k][1]}

\* The record appended for its link is the nearest of the candidates with a
\* link that were not displayed.
NearestLinkedAppended(pairs) ==
    IF LinkedNotShown(pairs) = {} THEN ret.link_backfill = << >>
    ELSE \E k \in LinkedNotShown(pairs) :
            /\ ret.link_backfill = <<pairs[k]>>
            /\ \A j \in LinkedNotShown(pairs) : ~FloatLess(pairs[k][2], pairs[j][2])

\* C23: without an exact match, when none of the suggestions displayed has
\* a purchase link, the record appended as "Nearest match with purchase
\* link" is, of the candidates with a link that were not displayed, the one
\* of the highest raw similarity; when a displayed suggestion has a link,
\* nothing is appended.
C23_LinkBackfillIsNearest ==
    Returned("display_team_colors") /\ ret.branch = "similar" =>
        IF \E p \in 1..Len(ret.shown) : ret.shown[p][1].link \notin {NoneStr, ""}
        THEN ret.link_backfill = << >>
        ELSE NearestLinkedAppended(NearestOfCall)

----------------------------------------------------------------------------
(* display_team_colors, no exact match: the manufacturer backfill *)

\* The filaments printed before the manufacturer backfill.
FilamentsBeforeTop ==
    [i \in 1..(Len(ret.shown) + Len(ret.link_backfill)) |->
        IF i <= Len(ret.shown) THEN ret.shown[i][1] ELSE ret.link_backfill[1][1]]

\* The positions of the candidates from a ranked manufacturer that are equal
\* to no filament printed before the manufacturer backfill.
RankedNotPrinted(pairs) ==
    {k \in 1..Len(pairs) :
        /\ get_manufacturer_rank(pairs[k][1].manufacturer) # 999
        /\ \A i \in 1..Len(FilamentsBeforeTop) : FilamentsBeforeTop[i] # pairs[k][1]}

\* The pair appended is the one of the highest weighted score among the
\* given positions; nothing is appended when there is none.
BestWeightedAppended(pairs, scores, positions) ==
    IF positions = {} THEN ret.top_backfill = << >>
    ELSE \E k \in positions :
            /\ ret.top_backfill = <<pairs[k]>>
            /\ \A j \in positions : ~FloatLess(scores[k], scores[j])

\* C24: without an exact match, a record is appended for its manufacturer
\* if and only if none of the records displayed so far (the suggestions and
\* the link backfill) is from a ranked manufacturer and some candidate of
\* the 50 that is not displayed is; it is then the one of the highest
\* weighted score, whatever its rank.
C24_NearestTopBackfillByWeightedScore ==
    Returned("display_team_colors") /\ ret.branch = "similar" =>
        IF \E i \in 1..Len(FilamentsBeforeTop) :
               get_manufacturer_rank(FilamentsBeforeTop[i].manufacturer) # 999
        THEN ret.top_backfill = << >>
        ELSE BestWeightedAppended(NearestOfCall, WeightedScoresOf(NearestOfCall),
                                  RankedNotPrinted(NearestOfCall))

\* Two ranked candidates are left after three unranked suggestions; the one
\* appended has the higher weighted score and the higher (worse) rank.
C24_Witness ==
    /\ Returned("display_team_colors")
    /\ ret.branch = "similar"
    /\ Len(ret.top_backfill) = 1
    /\ \E j \in RankedNotPrinted(NearestOfCall) :
          /\ get_manufacturer_rank(NearestOfCall[j][1].manufacturer)
                < get_manufacturer_rank(ret.top_backfill[1][1].manufacturer)
          /\ FloatLess(WeightedOf(NearestOfCall[j]), WeightedOf(ret.top_backfill[1]))

----------------------------------------------------------------------------
(* display_team_colors, no exact match: the whole catalog *)

\* The weighted score of catalog record i for the colour of the call.
CatalogWeighted(i) ==
    calculate_weighted_score(
        color_similarity_percentage(call.hex_code, ALL_FILAMENTS[i].hex),
        ALL_FILAMENTS[i].manufacturer)

\* C25: without an exact match, no catalog record with a hex that is not
\* among the suggestions displayed has a strictly higher weighted score
\* than a displayed one, whatever the size of the catalog.
C25_ShownAreBestOfWholeCatalog ==
    Returned("display_team_colors") /\ ret.branch = "similar" =>
        \A i \in 1..Len(ALL_FILAMENTS) :
            /\ ALL_FILAMENTS[i].hex # NoneStr
            /\ \A p \in 1..Len(ret.shown) : ret.shown[p][1] # ALL_FILAMENTS[i]
            => \A p \in 1..Len(ret.shown) :
                  ~FloatLess(WeightedOf(ret.shown[p]), CatalogWeighted(i))

----------------------------------------------------------------------------
(* get_filaments_by_hex on catalogs with a null hex *)

\* C26: get_filaments_by_hex returns for every catalog, also one with
\* records whose hex is null, and no such record is among the exact matches
\* it returns.
C26_ExactMatchToleratesNullHex ==
    call.op = "get_filaments_by_hex" =>
        /\ pc = "returned"
        /\ \A i \in 1..Len(ret) :
              \E k \in 1..Len(ALL_FILAMENTS) :
                  /\ ALL_FILAMENTS[k].hex # NoneStr
                  /\ EntryKey(ALL_FILAMENTS[k]) = EntryKey(ret[i])

----------------------------------------------------------------------------
(* is_top_manufacturer, get_manufacturer_rank and the bonus agree *)

\* The three answers for the name of the call.
TopOfCall == is_top_manufacturer(call.manufacturer)

RankedOfCall == get_manufacturer_rank(call.manufacturer) # 999

BonusOfCallPositive ==
    FloatLess(FloatZero, calculate_manufacturer_bonus(call.manufacturer))

----------------------------------------------------------------------------
(* display_team_colors: what is printed for one colour *)

\* The catalog records printed: first the suggestions, then the link
\* backfill, then the manufacturer backfill.
RecordsOf(list) ==
    IF ret.branch = "exact" THEN list ELSE [i \in 1..Len(list) |-> list[i][1]]

PrintedRecords ==
    RecordsOf(ret.shown) \o RecordsOf(ret.link_backfill) \o RecordsOf(ret.top_backfill)

\* C28: for one team colour, in either branch, at most three suggestions,
\* one link backfill and one manufacturer backfill are printed, five
\* records at most, and a backfilled record is equal to no record printed
\* before it.
C28_AtMostFiveAndNoRepeat ==
    Returned("display_team_colors") =>
        /\ Len(ret.shown) <= 3
        /\ Len(ret.link_backfill) <= 1
        /\ Len(ret.top_backfill) <= 1
        /\ Len(PrintedRecords) <= 5
        /\ \A i \in 1..Len(PrintedRecords), j \in 1..Len(PrintedRecords) :
              i < j /\ j > Len(ret.shown) => PrintedRecords[i] # PrintedRecords[j]

\* Five records are printed: three suggestions and both backfills.
C28_Witness ==
    /\ Returned("display_team_colors")
    /\ Len(ret.shown) = 3
    /\ Len(ret.link_backfill) = 1
    /\ Len(ret.top_backfill) = 1

----------------------------------------------------------------------------
(* The interactive loop of main() *)

\* ALL_TEAMS is the dict league -> team -> {colors, hex}, held as the
\* sequence of its items in insertion order: [league, teams], with teams the
\* sequence of [team, colors, hex] in insertion order.

list_all_leagues == [i \in 1..Len(ALL_TEAMS) |-> ALL_TEAMS[i].league]

get_all_teams_by_league(league) ==
    LET league_upper == Upper(league)
    IN  IF \E i \in 1..Len(ALL_TEAMS) : ALL_TEAMS[i].league = league_upper
        THEN ALL_TEAMS[CHOOSE i \in 1..Len(ALL_TEAMS) :
                           ALL_TEAMS[i].league = league_upper].teams
        ELSE None

\* The first team of the league whose lowered name equals team_name.lower()
RECURSIVE FindTeam(_, _, _)
FindTeam(teams, team_name_lower, i) ==
    IF i > Len(teams) THEN None
    ELSE IF Lower(teams[i].team) = team_name_lower THEN teams[i]
    ELSE FindTeam(teams, team_name_lower, i + 1)

\* get_team_colors with a league given (main always passes one)
get_team_colors(team_name, league) ==
    LET league_upper == Upper(league)
    IN  IF \E i \in 1..Len(ALL_TEAMS) : ALL_TEAMS[i].league = league_upper
        THEN FindTeam(ALL_TEAMS[CHOOSE i \in 1..Len(ALL_TEAMS) :
                                    ALL_TEAMS[i].league = league_upper].teams,
                      Lower(team_name), 1)
        ELSE None

\* The place of a character among those that occur in team names, by
\* increasing code point
ord(c) ==
    LET CodePoints == " 0123456789" \o UpperLetters \o LowerLetters
    IN  CHOOSE i \in 1..Len(CodePoints) : CharAt(CodePoints, i) = c

\* a < b on str: by code points, a proper prefix first
RECURSIVE StrLess(_, _)
StrLess(a, b) ==
    IF b = "" THEN FALSE
    ELSE IF a = "" THEN TRUE
    ELSE IF CharAt(a, 1) = CharAt(b, 1)
         THEN StrLess(SubSeq(a, 2, Len(a)), SubSeq(b, 2, Len(b)))
    ELSE ord(CharAt(a, 1)) < ord(CharAt(b, 1))

RECURSIVE InsertSorted(_, _, _)
InsertSorted(names, name, i) ==
    IF i > Len(names) THEN Append(names, name)
    ELSE IF StrLess(name, names[i])
         THEN SubSeq(names, 1, i - 1) \o <<name>> \o SubSeq(names, i, Len(names))
    ELSE InsertSorted(names, name, i + 1)

\* sorted(teams_data.keys())
RECURSIVE sorted(_, _, _)
sorted(teams_data, i, names) ==
    IF i > Len(teams_data) THEN names
    ELSE sorted(teams_data, i + 1, InsertSorted(names, teams_data[i].team, 1))

\* int(choice) of a stripped choice: a non-empty run of decimal digits, or
\* ValueError
IsInt(choice) ==
    /\ choice # ""
    /\ \A i \in 1..Len(choice) : \E d \in 1..10 : CharAt(choice, i) = DigitNames[d]

RECURSIVE int(_)
int(choice) ==
    IF choice = "" THEN 0
    ELSE 10 * int(SubSeq(choice, 1, Len(choice) - 1))
             + (CHOOSE d \in 0..9 : DigitNames[d + 1] = CharAt(choice, Len(choice)))

\* The loop over the team's colours in display_team_colors(team_name, league):
\* an exception of one colour's lookup leaves the function
RECURSIVE DisplayColors(_, _, _)
DisplayColors(hex_codes, n, i) ==
    IF i > n THEN Ok(None)
    ELSE IF display_team_colors(hex_codes[i])[1] # "ok" THEN display_team_colors(hex_codes[i])
    ELSE DisplayColors(hex_codes, n, i + 1)

\* display_team_colors(team_name, league), the whole function
DisplayTeam(team_name, league) ==
    LET team_data == get_team_colors(team_name, league)
    IN  IF team_data = None THEN Ok(None)
        ELSE IF team_data.colors = << >> \/ team_data.hex = << >> THEN Ok(None)
        ELSE DisplayColors(team_data.hex,
                           IF Len(team_data.colors) < Len(team_data.hex)
                           THEN Len(team_data.colors) ELSE Len(team_data.hex),
                           1)

\* What the user may type at a prompt
MainInputs == {"q", "Q", " q ", "b", "B", "n", "N", "y", "1", " 2", "3", "0", "x", ""}

\* League files: a league of two teams, a league whose file lists no team, and
\* a league whose key is not in upper case
LeaguePool ==
    { [league |-> "NFL",
       teams |-> << [team |-> "Packers", colors |-> <<"Red">>, hex |-> <<"#FF0000">>],
                    [team |-> "Bears", colors |-> << >>, hex |-> << >>] >>],
      [league |-> "NBA", teams |-> << >>],
      [league |-> "Mls",
       teams |-> << [team |-> "Fire", colors |-> <<"Red">>, hex |-> <<"#FF0000">>] >>] }

MaxLeagues == 2

\* dict keys are unique
TeamTables ==
    {t \in BoundedSeqs(LeaguePool, MaxLeagues) :
        \A i, j \in 1..Len(t) : i # j => t[i].league # t[j].league}

\* A catalog with an exact match of the teams' colour, and one that also holds
\* a record with a null hex
MainCatalogs ==
    { << [manufacturer |-> "Overture", material |-> "PLA", color |-> "Red",
          hex |-> "#FF0000", link |-> NoneStr] >>,
      << [manufacturer |-> "Overture", material |-> "PLA", color |-> "Red",
          hex |-> "#FF0000", link |-> NoneStr],
         [manufacturer |-> "Hatchbox", material |-> "PLA", color |-> "Unmeasured",
          hex |-> NoneStr, link |-> NoneStr] >> }

\* main's local variables, and the prompt that read `choice`
MainLocals(league, team_name, prompt, choice) ==
    [fn |-> "main", league |-> league, team_name |-> team_name,
     prompt |-> prompt, choice |-> choice]

\* select_league() up to its first input(): None when there is no league
EnterSelectLeague == IF Len(list_all_leagues) = 0 THEN "exited" ELSE "league_prompt"

\* select_team(league) up to its first input(): `if not teams_data` returns
\* None, and main returns on None
EnterSelectTeam(league) ==
    IF get_all_teams_by_league(league) = None \/ get_all_teams_by_league(league) = << >>
    THEN "exited"
    ELSE "team_prompt"

InitMain ==
    /\ TOP_MANUFACTURERS = ShippedTable
    /\ ALL_FILAMENTS \in MainCatalogs
    /\ ALL_TEAMS \in TeamTables
    /\ pc = "start"
    /\ call = [op |-> "none"]
    /\ ret = "none"
    /\ locals = MainLocals(NoneStr, NoneStr, "none", NoneStr)
    /\ io = << >>

\* main() from its banner to the first input()
main_Start ==
    /\ pc = "start"
    /\ pc' = EnterSelectLeague
    /\ UNCHANGED <<TOP_MANUFACTURERS, ALL_FILAMENTS, call, ret, ALL_TEAMS, locals, io>>

\* One input() of select_league, and what main does with a returned league
select_league_Input ==
    /\ pc = "league_prompt"
    /\ \E text \in MainInputs :
        LET choice == Strip(text, " ")
            leagues == list_all_leagues
        IN  IF Lower(choice) = "q"
            THEN /\ pc' = "exited"
                 /\ locals' = MainLocals(NoneStr, locals.team_name, "league", choice)
            ELSE IF IsInt(choice) /\ 1 <= int(choice) /\ int(choice) <= Len(leagues)
            THEN /\ pc' = EnterSelectTeam(leagues[int(choice)])
                 /\ locals' = MainLocals(leagues[int(choice)], locals.team_name,
                                         "league", choice)
            ELSE /\ pc' = "league_prompt"
                 /\ locals' = MainLocals(locals.league, locals.team_name, "league", choice)
    /\ UNCHANGED <<TOP_MANUFACTURERS, ALL_FILAMENTS, call, ret, ALL_TEAMS, io>>

\* One input() of select_team, and what main does with a returned team
select_team_Input ==
    /\ pc = "team_prompt"
    /\ \E text \in MainInputs :
        LET choice == Strip(text, " ")
            team_names == sorted(get_all_teams_by_league(locals.league), 1, << >>)
        IN  IF Lower(choice) = "q"
            THEN /\ pc' = "exited"
                 /\ locals' = MainLocals(locals.league, NoneStr, "team", choice)
            ELSE IF Lower(choice) = "b"
            THEN /\ pc' = EnterSelectLeague
                 /\ locals' = MainLocals(locals.league, "back", "team", choice)
            ELSE IF IsInt(choice) /\ 1 <= int(choice) /\ int(choice) <= Len(team_names)
            THEN LET team_name == team_names[int(choice)]
                 IN  /\ pc' = (IF team_name = "back" THEN EnterSelectLeague
                               ELSE IF DisplayTeam(team_name, locals.league)[1] = "ok"
                                    THEN "another_prompt"
                               ELSE "raised")
                     /\ locals' = MainLocals(locals.league, team_name, "team", choice)
            ELSE /\ pc' = "team_prompt"
                 /\ locals' = MainLocals(locals.league, locals.team_name, "team", choice)
    /\ UNCHANGED <<TOP_MANUFACTURERS, ALL_FILAMENTS, call, ret, ALL_TEAMS, io>>

\* The input() after a team was shown: "See another team? (y/n/b to go back)"
main_AnotherInput ==
    /\ pc = "another_prompt"
    /\ \E text \in MainInputs :
        LET choice == Lower(Strip(text, " "))
        IN  /\ pc' = (IF choice = "n" THEN "exited"
                      ELSE IF choice = "b" THEN EnterSelectLeague
                      ELSE EnterSelectTeam(locals.league))
            /\ locals' = MainLocals(locals.league, locals.team_name, "another", choice)
    /\ UNCHANGED <<TOP_MANUFACTURERS, ALL_FILAMENTS, call, ret, ALL_TEAMS, io>>

NextMain ==
    \/ main_Start
    \/ select_league_Input
    \/ select_team_Input
    \/ main_AnotherInput

SpecMain == InitMain /\ [][NextMain]_vars

----------------------------------------------------------------------------
\* C29: the loop of main() ends only on an explicit quit ('q' at the league
\* or team prompt, 'n' after a team was shown) or when there is no league at
\* all; in particular a selected league leads to a team prompt, never to the
\* end of the program.
C29_LoopEndsOnlyOnQuit ==
    pc \in {"exited", "raised"} =>
        \/ ALL_TEAMS = << >>
        \/ locals.prompt \in {"league", "team"} /\ Lower(locals.choice) = "q"
        \/ locals.prompt = "another" /\ locals.choice = "n"

----------------------------------------------------------------------------
(* The retry loops of the scrapers: FilamentProfilesScraper.fetch and       *)
(* PolymakerScraper._fetch_with_retry                                       *)

MAX_RETRIES == 3
RETRY_DELAY == FloatLiteral(500)

\* What one requests.get can come to: a response with a status code, or an
\* exception of requests.exceptions that is not an HTTPError
Responses ==
    {<<"response", status_code>> :
        status_code \in {200, 204, 304, 400, 401, 403, 404, 408, 429, 500, 502, 503}}
RequestExceptions == {<<"raise", "ConnectionError">>, <<"raise", "Timeout">>}

\* response.raise_for_status() raises HTTPError for a status from 400 to 599
raise_for_status(status_code) == 400 <= status_code /\ status_code < 600

\* `if response`: None is false, and the truth value of a requests.Response
\* is its .ok, which is False when raise_for_status() raises
ResponseTruthy(response) == response # None /\ ~raise_for_status(response[2])

\* The delay argument: 0 and 0.5 for the sitemaps, DEFAULT_DELAY = 1.0, and
\* 0.3 for a product page
Delays == {FloatZero, FloatLiteral(30), FloatLiteral(50), FloatLiteral(100)}

\* The sleep before the request of this attempt, if any
SleepBefore(attempt, delay) ==
    IF attempt > 0 THEN << <<"sleep", FloatMulInt(attempt, RETRY_DELAY)>> >>
    ELSE IF FloatLess(FloatZero, delay) THEN << <<"sleep", delay>> >>
    ELSE << >>

\* Where the loop stands after the body of this attempt, given what the
\* request came to: "returned" (break / return response), "failed"
\* (sys.exit(1) / return None) or "attempt" (continue)
AfterAttempt(attempt, outcome) ==
    IF outcome \in RequestExceptions THEN "failed"
    ELSE IF ~raise_for_status(outcome[2]) THEN "returned"
    ELSE IF ResponseTruthy(outcome) /\ outcome[2] = 429
         THEN (IF attempt < MAX_RETRIES - 1 THEN "attempt" ELSE "failed")
    ELSE "failed"

FetchLocals(scraper, delay, attempt, response) ==
    [fn |-> scraper, delay |-> delay, attempt |-> attempt, response |-> response]

InitFetch ==
    /\ TOP_MANUFACTURERS = << >>
    /\ ALL_FILAMENTS = << >>
    /\ ALL_TEAMS = << >>
    /\ pc = "attempt"
    /\ call = [op |-> "none"]
    /\ ret = "none"
    /\ \E scraper \in {"FilamentProfilesScraper.fetch",
                       "PolymakerScraper._fetch_with_retry"}, delay \in Delays :
        locals = FetchLocals(scraper, delay, 0, None)
    /\ io = << >>

\* The local variables after the body of this attempt
LocalsAfterAttempt(outcome) ==
    FetchLocals(locals.fn, locals.delay,
                IF AfterAttempt(locals.attempt, outcome) = "attempt"
                THEN locals.attempt + 1 ELSE locals.attempt,
                IF outcome \in Responses THEN outcome ELSE locals.response)

\* One pass through the body of `for attempt in range(self.MAX_RETRIES)` of
\* FilamentProfilesScraper.fetch
fetch_Attempt ==
    /\ pc = "attempt"
    /\ locals.fn = "FilamentProfilesScraper.fetch"
    /\ locals.attempt < MAX_RETRIES
    /\ \E outcome \in Responses \cup RequestExceptions :
        /\ io' = io \o SleepBefore(locals.attempt, locals.delay) \o << <<"get", outcome>> >>
        /\ pc' = AfterAttempt(locals.attempt, outcome)
        /\ locals' = LocalsAfterAttempt(outcome)
    /\ UNCHANGED <<TOP_MANUFACTURERS, ALL_FILAMENTS, call, ret, ALL_TEAMS>>

\* One pass through the body of the same loop of
\* PolymakerScraper._fetch_with_retry
fetch_with_retry_Attempt ==
    /\ pc = "attempt"
    /\ locals.fn = "PolymakerScraper._fetch_with_retry"
    /\ locals.attempt < MAX_RETRIES
    /\ \E outcome \in Responses \cup RequestExceptions :
        /\ io' = io \o SleepBefore(locals.attempt, locals.delay) \o << <<"get", outcome>> >>
        /\ pc' = AfterAttempt(locals.attempt, outcome)
        /\ locals' = LocalsAfterAttempt(outcome)
    /\ UNCHANGED <<TOP_MANUFACTURERS, ALL_FILAMENTS, call, ret, ALL_TEAMS>>

NextFetch ==
    \/ fetch_Attempt
    \/ fetch_with_retry_Attempt

SpecFetch == InitFetch /\ [][NextFetch]_vars

\* The requests sent so far
RequestsSent == Len(SelectSeq(io, LAMBDA e : e[1] = "get"))

----------------------------------------------------------------------------
\* C30: a request answered with HTTP 429 is retried, for at most MAX_RETRIES
\* requests in all: a fetch that has failed on a 429 has sent MAX_RETRIES
\* requests, and no fetch sends more.
C30_RateLimitedIsRetried ==
    /\ RequestsSent <= MAX_RETRIES
    /\ (pc = "failed" /\ io[Len(io)] = <<"get", <<"response", 429>> >>)
           => RequestsSent = MAX_RETRIES

====
